---- MODULE Spec2Model ----
(***************************************************************************)
(* A model of the cache simulator: the Cache (src/src/cache.rs), the       *)
(* replacement policies Lru, Fifo, Rand, Mru, Lfu and Landlord with the    *)
(* Lru tiebreaker (src/src/replacement_policy.rs), the items               *)
(* (src/src/item.rs), the hit/miss statistics and the tuples of Stats      *)
(* (src/src/stats.rs) and the Trace with its stack distances               *)
(* (src/src/trace.rs).                                                     *)
(*                                                                         *)
(* Spec is the cache under single calls of Cache::access, RunSpec the      *)
(* cache under calls of Cache::run_trace, StatSpec a tuple of Stats under  *)
(* the events of its update, and TraceSpec a Trace that is built, grown    *)
(* and analysed.  LfuSpec, LandlordSpec and PagingSpec are Spec under one  *)
(* policy, AliasSpec and RecordSpec the cache with items that share an id  *)
(* and with a Trace as its Stat, OptSpec the cache with the Optimal        *)
(* policy, TiebreakSpec the Lru tiebreaker called directly, DistanceSpec a *)
(* trace that is replayed and analysed, AnalysisSpec a Trace under its     *)
(* other functions and ContinuationSpec linear_function_continuation,      *)
(* loop by loop.                                                           *)
(*                                                                         *)
(* One Access step is one call of Cache::access.  The step is the          *)
(* composition, in the order of the source, of the stages of the call:     *)
(* the policy call, the Stat hook, the removal of the evicted items, the   *)
(* insertion of the accessed item and the final assertion.  Every stage    *)
(* appends what it observes to `trail`, so the order of the stages of the  *)
(* last call can be read from the state.                                   *)
(*                                                                         *)
(* A Rust panic (a failed assert!, an expect on None, an index out of      *)
(* range) ends the run: status becomes "panicked" and no step follows.     *)
(***************************************************************************)
EXTENDS Integers, Sequences, FiniteSets, TLC

\* Bounds of the model.
NumItems == 4
MaxAccesses == 5
MaxCapacity == 3
NumRunItems == 3
MaxRunLen == 2
MaxRunTotal == 4
MaxTraceLen == 4
NumStatItems == 2
MaxEvents == 3
MaxTuple == 2
MaxFree == 3
MaxOptLen == 5
MaxAliasAccesses == 3
MaxScanLen == 3

VARIABLES
    set,                 \* Cache.set: the resident items (a HashSet, unique by id)
    replacement_policy,  \* Cache.replacement_policy: the policy object and its state
    capacity,            \* Cache.capacity
    stat,                \* Cache.stat: the (HitCount, MissCount) pair
    status,              \* "ok", or "panicked" once a call of access has panicked
    item_model,          \* the Item type of the run: "u32" or "GeneralModelItem"
    history,             \* ghost: per call of access, the item and the set before the call
    policy_before,       \* ghost: replacement_policy before the last call of access
    trail,               \* ghost: what each stage of the last call observed, in order
    run_len,             \* ghost: the length of the trace of the last run_trace (0: none)
    tiebreak,            \* the last direct call of Lru::tiebreak: arguments and result
    tuple,               \* a tuple of Stats: its members, in the order of the tuple
    alone,               \* ghost: per Stat type, a Stat of that type that observes alone
    trace,               \* a Trace: its inner items and its strides
    distances,           \* the StackDistance of the last call of stack_distances
    histogram,           \* the result of the last call of histogram
    trace_call,          \* ghost: the last call on the Trace and its paging_model
    frequencies,         \* the HashMap of the last frequency_histogram or stride_histogram
    condition,           \* ghost: the Condition of that call
    entropy_value,       \* the result of the last call of entropy
    analysis,            \* the last call of another function of the Trace: its
                         \* name, its arguments and what it returned
    continuation         \* linear_function_continuation: its locals, loop by loop

\* The variables of the cache and its ghosts, of the tuple of Stats and of the
\* Trace: each specification below moves one group and leaves the others.
cache_vars == <<set, replacement_policy, capacity, stat, status, item_model, history,
                policy_before, trail, run_len, tiebreak>>

stat_vars == <<tuple, alone>>

analysis_vars == <<analysis, continuation>>

trace_vars == <<trace, distances, histogram, trace_call, frequencies, condition,
                entropy_value, analysis_vars>>

vars == <<cache_vars, stat_vars, trace_vars>>

(***************************************************************************)
(* Items (src/src/item.rs).  An item is a record of its id, size and cost; *)
(* equality and hashing of items go by the id alone.                       *)
(***************************************************************************)
\* impl Item for u32: the paging model, unit size and unit cost.
U32Item(i) == [id |-> i, size |-> 1, cost |-> 1]

\* GeneralModelItem::new(uid, cost, size).
GeneralModelItem(uid, cost, size) == [id |-> uid, size |-> size, cost |-> cost]

\* The sizes and costs of the general-model items of a run, by uid: those of
\* the items a, b, c, d of the Landlord doc test (sizes 1, 2, 2, 1 and costs
\* 1.0, 0.5, 100.0, 1.0, here in the same order 2, 1, 4, 2), repeating.
GeneralSize(uid) == IF uid % 4 \in {1, 2} THEN 2 ELSE 1

GeneralCost(uid) == CASE uid % 4 = 1 -> 1
                      [] uid % 4 = 2 -> 4
                      [] OTHER -> 2

\* The items a trace of the run may access.
Items(model) ==
    IF model = "u32"
    THEN {U32Item(i) : i \in 0..(NumItems - 1)}
    ELSE {GeneralModelItem(i, GeneralCost(i), GeneralSize(i)) : i \in 0..(NumItems - 1)}

\* A faulty equality that compares every field of the items (C22 must tell it
\* from the real one).
ItemEq_Full(a, b) == a = b

\* PartialEq for items: by id.
ItemEq(a, b) == a.id = b.id

\* HashSet::contains and HashSet::insert under that equality; RemoveAll is the
\* loop of HashSet::remove over the items to evict.
Contains(s, item) == \E i \in s : ItemEq(i, item)

Insert(s, item) == IF Contains(s, item) THEN s ELSE s \cup {item}

RemoveAll(s, items) == {i \in s : ~Contains(items, i)}

RECURSIVE SumSizes(_)
\* set.iter().map(Item::size).sum()
SumSizes(s) ==
    IF s = {} THEN 0
    ELSE LET i == CHOOSE x \in s : TRUE IN i.size + SumSizes(s \ {i})

(***************************************************************************)
(* Vec helpers.                                                            *)
(***************************************************************************)
\* stack.iter().position(|&i| i == next): the first index, 0 for None.
Position(stack, next) ==
    IF \E k \in 1..Len(stack) : ItemEq(stack[k], next)
    THEN CHOOSE k \in 1..Len(stack) :
            /\ ItemEq(stack[k], next)
            /\ \A j \in 1..(k - 1) : ~ItemEq(stack[j], next)
    ELSE 0

\* Vec::remove(index), for an index of the vector (1-based here).
RemoveAt(stack, k) == SubSeq(stack, 1, k - 1) \o SubSeq(stack, k + 1, Len(stack))

\* The empty HashMap.
EmptyMap == [k \in {} |-> 0]

(***************************************************************************)
(* The policy object.  kind names the policy type; stack is the Vec of     *)
(* Lru and Mru, the VecDeque of Fifo, and the stack of the Lru tiebreaker  *)
(* of Lfu and Landlord; counts is Lfu.counts and credit is Landlord.credit *)
(* (maps keyed by item, that is by id).  Credits are f64 in the source and *)
(* integers in units of 1/CreditScale here: with sizes 1 and 2, integer    *)
(* costs and a credit_increase of 1 or 1/2 every credit the source         *)
(* computes is a multiple of that unit, computed without rounding; the     *)
(* field exact records that no division of the model left a remainder.     *)
(* updates is a ghost: the number of calls of the policy's update_state.   *)
(* order is a ghost: what the current call of the trait has done so far,   *)
(* "update_state" for the bookkeeping of update_state and "select" for the *)
(* choice of the items to evict, in the order the code does them.          *)
(* future is the rest of the trace the Optimal policy holds.               *)
(***************************************************************************)
CreditScale == 2 ^ (MaxAccesses + 1)

NewPolicy(kind, credit_increase) ==
    [kind |-> kind, stack |-> <<>>, counts |-> EmptyMap, credit |-> EmptyMap,
     credit_increase |-> credit_increase, updates |-> 0, exact |-> TRUE,
     order |-> <<>>, future |-> <<>>]

\* A call of update_state or replace starts, and replace chooses what to evict.
Begin(rp) == [rp EXCEPT !.order = <<>>]

Selecting(rp) == [rp EXCEPT !.order = Append(@, "select")]

\* What a policy call gives back: the policy after the call, the items to evict
\* and whether the call returned (ok) or panicked.
Returned(rp, to_evict) == [rp |-> rp, to_evict |-> to_evict, ok |-> TRUE]

Panicked(rp) == [rp |-> rp, to_evict |-> {}, ok |-> FALSE]

(***************************************************************************)
(* Lru.                                                                    *)
(***************************************************************************)
\* The body of Lru::update_state (and of Mru::update_state) on the stack.
LruStack(stack, next) ==
    LET index == Position(stack, next)
    IN Append(IF index > 0 THEN RemoveAt(stack, index) ELSE stack, next)

LruUpdateState(rp, s, cap, next) ==
    [rp EXCEPT !.stack = LruStack(rp.stack, next), !.updates = @ + 1,
               !.order = Append(@, "update_state")]

\* A faulty Lru::replace that evicts the most recently used resident, the item
\* below the top of the stack (C29 must tell it from the real one).
LruReplace_Newest(rp, s, cap, next) ==
    LET p == LruUpdateState(rp, s, cap, next)
    IN IF Len(p.stack) < 2
       THEN Returned(Selecting([p EXCEPT !.stack = RemoveAt(p.stack, 1)]),
                     {p.stack[1]})
       ELSE Returned(Selecting([p EXCEPT !.stack = RemoveAt(p.stack, Len(p.stack) - 1)]),
                     {p.stack[Len(p.stack) - 1]})

\* A faulty Lru::replace that returns the bottom of the stack without removing
\* it from the stack (C30 must tell it from the real one).
LruReplace_Keep(rp, s, cap, next) ==
    LET p == LruUpdateState(rp, s, cap, next)
    IN Returned(Selecting(p), {p.stack[1]})

\* Lru::replace: update_state, then stack.remove(0).
LruReplace(rp, s, cap, next) ==
    LET p == LruUpdateState(rp, s, cap, next)
    IN Returned(Selecting([p EXCEPT !.stack = RemoveAt(p.stack, 1)]), {p.stack[1]})

RECURSIVE LruTiebreakLoop_Over(_, _, _, _)
\* A faulty loop that goes on while the freed size is at most size_to_free, so
\* that it takes one candidate more than needed when the sizes add up exactly
\* (C27 must tell it from the real one).
LruTiebreakLoop_Over(stack, from, size_to_free, ret) ==
    IF size_to_free >= SumSizes(ret) /\ Cardinality(ret) < Cardinality(from)
    THEN LET found == {k \in 1..Len(stack) :
                          ~Contains(ret, stack[k]) /\ stack[k].id \in from}
         IN IF found = {}
            THEN [ret |-> ret, ok |-> FALSE, hang |-> TRUE]
            ELSE LET k == CHOOSE x \in found : \A y \in found : x <= y
                 IN LruTiebreakLoop_Over(stack, from, size_to_free,
                                         Insert(ret, stack[k]))
    ELSE [ret |-> ret, ok |-> ret # {}, hang |-> FALSE]

RECURSIVE LruTiebreakLoop(_, _, _, _)
\* The while loop of Lru::tiebreak.  `from` is given by the ids of its items.
\* Each round extends ret by the first item of the stack that is not in ret and
\* is in from.  When no such item is left while the loop condition still holds,
\* the loop of the source never ends: hang.
LruTiebreakLoop(stack, from, size_to_free, ret) ==
    IF size_to_free > SumSizes(ret) /\ Cardinality(ret) < Cardinality(from)
    THEN LET found == {k \in 1..Len(stack) :
                          ~Contains(ret, stack[k]) /\ stack[k].id \in from}
         IN IF found = {}
            THEN [ret |-> ret, ok |-> FALSE, hang |-> TRUE]
            ELSE LET k == CHOOSE x \in found : \A y \in found : x <= y
                 IN LruTiebreakLoop(stack, from, size_to_free, Insert(ret, stack[k]))
    ELSE [ret |-> ret, ok |-> ret # {}, hang |-> FALSE]

\* Lru::tiebreak: the loop from the empty set, then assert!(!ret.is_empty()).
LruTiebreak(stack, from, size_to_free) ==
    LruTiebreakLoop(stack, from, size_to_free, {})

(***************************************************************************)
(* Fifo.                                                                   *)
(***************************************************************************)
\* A faulty Fifo::update_state that moves a re-accessed item to the back of the
\* queue, as Lru does (C5 must tell it from the real one).
FifoUpdateState_Moves(rp, s, cap, next) ==
    [rp EXCEPT !.stack = LruStack(rp.stack, next), !.updates = @ + 1,
               !.order = Append(@, "update_state")]

FifoUpdateState(rp, s, cap, next) ==
    [rp EXCEPT !.stack = IF Position(rp.stack, next) = 0
                         THEN Append(rp.stack, next) ELSE rp.stack,
               !.updates = @ + 1,
               !.order = Append(@, "update_state")]

\* A faulty Fifo::replace that pops two items where the queue holds two
\* besides the new one (C36 must tell it from the real one).
FifoReplace_Two(rp, s, cap, next) ==
    LET p == FifoUpdateState(rp, s, cap, next)
    IN IF Len(p.stack) >= 3
       THEN Returned(Selecting([p EXCEPT !.stack = Tail(Tail(p.stack))]),
                     {p.stack[1], p.stack[2]})
       ELSE Returned(Selecting([p EXCEPT !.stack = Tail(p.stack)]), {Head(p.stack)})

\* Fifo::replace: update_state, then pop_front.
FifoReplace(rp, s, cap, next) ==
    LET p == FifoUpdateState(rp, s, cap, next)
    IN Returned(Selecting([p EXCEPT !.stack = Tail(p.stack)]), {Head(p.stack)})

(***************************************************************************)
(* Rand.                                                                   *)
(***************************************************************************)
\* Rand::update_state: an empty body.
RandUpdateState(rp, s, cap, next) == [rp EXCEPT !.updates = @ + 1,
               !.order = Append(@, "update_state")]

\* Rand::replace: any one item of the set, as the random generator decides; the
\* expect panics on the empty set.  update_state is not called.
RandReplace(rp, s, cap, next) ==
    IF s = {} THEN {Panicked(rp)} ELSE {Returned(Selecting(rp), {i}) : i \in s}

(***************************************************************************)
(* Mru.                                                                    *)
(***************************************************************************)
MruUpdateState(rp, s, cap, next) ==
    [rp EXCEPT !.stack = LruStack(rp.stack, next), !.updates = @ + 1,
               !.order = Append(@, "update_state")]

\* A faulty Mru::replace that removes the bottom of the stack, as Lru does (C6
\* must tell it from the real one).
MruReplace_Oldest(rp, s, cap, next) ==
    LET p == MruUpdateState(rp, s, cap, next)
    IN IF Len(p.stack) < 2
       THEN Panicked(p)
       ELSE Returned(Selecting([p EXCEPT !.stack = RemoveAt(p.stack, 1)]),
                     {p.stack[1]})

\* Mru::replace: update_state, then stack.remove(stack.len() - 2): the index
\* underflows, or is out of range, when the stack holds next alone.
MruReplace(rp, s, cap, next) ==
    LET p == MruUpdateState(rp, s, cap, next)
    IN IF Len(p.stack) < 2
       THEN Panicked(p)
       ELSE Returned(Selecting([p EXCEPT !.stack = RemoveAt(p.stack, Len(p.stack) - 1)]),
                     {p.stack[Len(p.stack) - 1]})

(***************************************************************************)
(* Lfu, with the Lru tiebreaker.                                           *)
(***************************************************************************)
LfuUpdateState(rp, s, cap, next) ==
    [rp EXCEPT !.counts = [id \in DOMAIN rp.counts \cup {next.id} |->
                              (IF id \in DOMAIN rp.counts THEN rp.counts[id] ELSE 0)
                              + (IF id = next.id THEN 1 ELSE 0)],
               !.stack = LruStack(rp.stack, next),
               !.updates = @ + 1,
               !.order = Append(@, "update_state")]

\* The candidates Lfu::replace hands to the tiebreaker: the keys of counts
\* whose count is min.
LfuCandidates(counts, s, min) == {id \in DOMAIN counts : counts[id] = min}

\* A faulty Lfu::replace that forgets the counter of what it evicts (C34 must
\* tell it from the real one).
LfuReplace_Forgets(rp, s, cap, next) ==
    LET p == LfuUpdateState(rp, s, cap, next)
        resident == {id \in DOMAIN p.counts : \E i \in s : i.id = id}
    IN IF resident = {}
       THEN Panicked(p)
       ELSE LET min == CHOOSE c \in {p.counts[id] : id \in resident} :
                          \A id \in resident : c <= p.counts[id]
                t == LruTiebreak(p.stack, LfuCandidates(p.counts, s, min), 1)
                kept == DOMAIN p.counts \ {i.id : i \in t.ret}
            IN IF t.ok
               THEN Returned(Selecting([p EXCEPT !.counts = [id \in kept |-> p.counts[id]]]),
                             t.ret)
               ELSE Panicked(p)

\* Lfu::replace: update_state, the minimum count over the keys that are in the
\* set (the expect panics when there is none), then tiebreak(candidates, 1).
LfuReplace(rp, s, cap, next) ==
    LET p == LfuUpdateState(rp, s, cap, next)
        resident == {id \in DOMAIN p.counts : \E i \in s : i.id = id}
    IN IF resident = {}
       THEN Panicked(p)
       ELSE LET min == CHOOSE c \in {p.counts[id] : id \in resident} :
                          \A id \in resident : c <= p.counts[id]
                t == LruTiebreak(p.stack, LfuCandidates(p.counts, s, min), 1)
            IN IF t.ok THEN Returned(Selecting(p), t.ret) ELSE Panicked(p)

(***************************************************************************)
(* Landlord, with the Lru tiebreaker.                                      *)
(***************************************************************************)
\* A faulty Landlord::update_state that restores the full cost on every hit,
\* whatever credit_increase is (C28 must tell it from the real one).
LandlordUpdateState_Full(rp, s, cap, next) ==
    [rp EXCEPT !.credit = [id \in DOMAIN rp.credit \cup {next.id} |->
                              IF id = next.id THEN next.cost * CreditScale
                              ELSE rp.credit[id]],
               !.stack = LruStack(rp.stack, next),
               !.updates = @ + 1,
               !.order = Append(@, "update_state")]

\* A faulty Landlord::update_state whose hit adds credit_increase of the whole
\* cost, not of the gap between the cost and the credit (C35 must tell it from
\* the real one).
LandlordUpdateState_Adds(rp, s, cap, next) ==
    LET cost == next.cost * CreditScale
        hit == Contains(s, next) /\ next.id \in DOMAIN rp.credit
        gain == IF hit THEN cost * rp.credit_increase.num ELSE 0
        new == IF hit THEN rp.credit[next.id] + (gain \div rp.credit_increase.den)
               ELSE cost
    IN [rp EXCEPT !.credit = [id \in DOMAIN rp.credit \cup {next.id} |->
                                 IF id = next.id THEN new ELSE rp.credit[id]],
                  !.exact = @ /\ (gain % rp.credit_increase.den = 0),
                  !.stack = LruStack(rp.stack, next),
                  !.updates = @ + 1,
                  !.order = Append(@, "update_state")]

\* Landlord::update_state.
LandlordUpdateState(rp, s, cap, next) ==
    LET cost == next.cost * CreditScale
        hit == Contains(s, next) /\ next.id \in DOMAIN rp.credit
        gap == IF hit THEN (cost - rp.credit[next.id]) * rp.credit_increase.num ELSE 0
        new == IF hit THEN rp.credit[next.id] + (gap \div rp.credit_increase.den)
               ELSE cost
    IN [rp EXCEPT !.credit = [id \in DOMAIN rp.credit \cup {next.id} |->
                                 IF id = next.id THEN new ELSE rp.credit[id]],
                  !.exact = @ /\ (gap % rp.credit_increase.den = 0),
                  !.stack = LruStack(rp.stack, next),
                  !.updates = @ + 1,
               !.order = Append(@, "update_state")]

\* The items the first loop of a round of Landlord::replace may end with as
\* min.  The loop walks the HashSet in its iteration order, which is not fixed,
\* and keeps the first item whose credit / size is strictly below the least so
\* far: any item with the least credit / size may be the one.  The quotients
\* are compared by cross-multiplication.
LandlordMin(credit, s) ==
    {m \in s : \A i \in s : credit[m.id] * i.size <= credit[i.id] * m.size}

\* abs_diff_eq!(credit, 0.0): within f64::EPSILON of zero.  A credit of the
\* model is a multiple of 1/CreditScale, far above that epsilon unless it is 0.
ApproxZero(c) == c = 0

\* A faulty decrease that computes delta from the cost of min, not from its
\* credit: the bug the test credit_not_cost guards against (C8 must tell it
\* from the real one).
LandlordDecrease_ByCost(credit, min, item) ==
    (min.cost * CreditScale * item.size) \div min.size

\* What one round of Landlord::replace takes from the credit of `item`:
\* delta * size, where delta = credit[min] / size(min).
LandlordDecrease(credit, min, item) == (credit[min.id] * item.size) \div min.size

RECURSIVE LandlordLoop(_, _, _, _, _)
\* The while loop of Landlord::replace, then update_state: the outcomes, one
\* for every item the first loop of a round may end with.
LandlordLoop(rp, s, cap, next, to_evict) ==
    LET remaining == RemoveAll(s, to_evict)
    IN IF SumSizes(remaining) + next.size > cap
       THEN IF s = {} \/ \E i \in s : i.id \notin DOMAIN rp.credit
            THEN {Panicked(rp)}
            ELSE UNION {
                 LET credit == [id \in DOMAIN rp.credit |->
                                   IF \E i \in s : i.id = id
                                   THEN LET i == CHOOSE x \in s : x.id = id
                                        IN rp.credit[id] - LandlordDecrease(rp.credit, min, i)
                                   ELSE rp.credit[id]]
                     exact == \A i \in s : (rp.credit[min.id] * i.size) % min.size = 0
                     zero == {i.id : i \in {x \in remaining : ApproxZero(credit[x.id])}}
                     t == LruTiebreak(rp.stack, zero,
                                      SumSizes(remaining) + next.size - cap)
                     p == Selecting([rp EXCEPT !.credit = credit, !.exact = @ /\ exact])
                 IN IF t.ok
                    THEN LandlordLoop(p, s, cap, next, to_evict \cup t.ret)
                    ELSE {Panicked(p)}
                 : min \in LandlordMin(rp.credit, s)}
       ELSE {Returned(LandlordUpdateState(rp, s, cap, next), to_evict)}

LandlordReplace(rp, s, cap, next) == LandlordLoop(rp, s, cap, next, {})

(***************************************************************************)
(* Optimal (Belady).  The policy is built with the trace that is going to  *)
(* be run and holds what is left of it; update_state drops its head, the   *)
(* item being accessed.  replace calls update_state and then evicts one    *)
(* resident: any one that does not occur in what is left, or else the one  *)
(* whose next occurrence is the farthest.                                   *)
(***************************************************************************)
NewOpt(t) == [NewPolicy("Opt", [num |-> 1, den |-> 1]) EXCEPT !.future = t.inner]

OptUpdateState(rp, s, cap, next) ==
    [rp EXCEPT !.future = IF @ = <<>> THEN @ ELSE Tail(@),
               !.updates = @ + 1,
               !.order = Append(@, "update_state")]

\* The index in the rest of the trace of the next occurrence of item (0: none).
NextOccurrence(future, item) == Position(future, item)

\* A faulty choice with the comparison reversed: it evicts the resident whose
\* next occurrence is the nearest, and one that does not occur again only when
\* none does (C23 must tell it from the real one).
OptReplace_Nearest(rp, s, cap, next) ==
    LET p == OptUpdateState(rp, s, cap, next)
        again == {i \in s : NextOccurrence(p.future, i) # 0}
    IN IF s = {}
       THEN {Panicked(p)}
       ELSE IF again = {}
            THEN {Returned(Selecting(p), {i}) : i \in s}
            ELSE {Returned(Selecting(p), {i}) :
                     i \in {x \in again : \A y \in again :
                               NextOccurrence(p.future, x) <= NextOccurrence(p.future, y)}}

OptReplace(rp, s, cap, next) ==
    LET p == OptUpdateState(rp, s, cap, next)
        never == {i \in s : NextOccurrence(p.future, i) = 0}
    IN IF s = {}
       THEN {Panicked(p)}
       ELSE IF never # {}
            THEN {Returned(Selecting(p), {i}) : i \in never}
            ELSE {Returned(Selecting(p), {i}) :
                     i \in {x \in s : \A y \in s :
                               NextOccurrence(p.future, x) >= NextOccurrence(p.future, y)}}

(***************************************************************************)
(* The ReplacementPolicy trait: dispatch on the policy type.               *)
(***************************************************************************)
UpdateState(rp, s, cap, next) ==
    CASE rp.kind = "Lru" -> LruUpdateState(Begin(rp), s, cap, next)
      [] rp.kind = "Fifo" -> FifoUpdateState(Begin(rp), s, cap, next)
      [] rp.kind = "Rand" -> RandUpdateState(Begin(rp), s, cap, next)
      [] rp.kind = "Mru" -> MruUpdateState(Begin(rp), s, cap, next)
      [] rp.kind = "Lfu" -> LfuUpdateState(Begin(rp), s, cap, next)
      [] rp.kind = "Landlord" -> LandlordUpdateState(Begin(rp), s, cap, next)
      [] rp.kind = "Opt" -> OptUpdateState(Begin(rp), s, cap, next)

\* A faulty replace whose Lfu takes the first least-counted resident in the
\* iteration order of the set instead of asking the tiebreaker (C17 must tell
\* it from the real one).
Replace_Unordered(rp, s, cap, next) ==
    CASE rp.kind = "Lru" -> {LruReplace(Begin(rp), s, cap, next)}
      [] rp.kind = "Fifo" -> {FifoReplace(Begin(rp), s, cap, next)}
      [] rp.kind = "Rand" -> RandReplace(Begin(rp), s, cap, next)
      [] rp.kind = "Mru" -> {MruReplace(Begin(rp), s, cap, next)}
      [] rp.kind = "Lfu" ->
            LET p == LfuUpdateState(Begin(rp), s, cap, next)
            IN IF s = {} THEN {Panicked(p)}
               ELSE {Returned(Selecting(p), {i}) :
                        i \in {x \in s : \A y \in s : p.counts[x.id] <= p.counts[y.id]}}
      [] rp.kind = "Landlord" -> LandlordReplace(Begin(rp), s, cap, next)
      [] rp.kind = "Opt" -> OptReplace(Begin(rp), s, cap, next)

\* The outcomes of replace: those the random generator (Rand) and the iteration
\* order of a HashSet (Landlord) allow.
Replace(rp, s, cap, next) ==
    CASE rp.kind = "Lru" -> {LruReplace(Begin(rp), s, cap, next)}
      [] rp.kind = "Fifo" -> {FifoReplace(Begin(rp), s, cap, next)}
      [] rp.kind = "Rand" -> RandReplace(Begin(rp), s, cap, next)
      [] rp.kind = "Mru" -> {MruReplace(Begin(rp), s, cap, next)}
      [] rp.kind = "Lfu" -> {LfuReplace(Begin(rp), s, cap, next)}
      [] rp.kind = "Landlord" -> LandlordReplace(Begin(rp), s, cap, next)
      [] rp.kind = "Opt" -> OptReplace(Begin(rp), s, cap, next)

(***************************************************************************)
(* A Trace as a Stat (src/src/trace.rs): a Trace is a record of its inner  *)
(* items and its strides.                                                  *)
(***************************************************************************)
\* Trace::default(): both vectors empty.
Default == [inner |-> <<>>, strides |-> <<>>]

\* A faulty recorder that pushes the misses only (C31 must tell it from the
\* real one).
TraceUpdate_Misses(t, s, next, evicted) ==
    IF Contains(s, next) THEN t ELSE [t EXCEPT !.inner = Append(@, next)]

\* impl Stat for Trace: update pushes the accessed item to inner.
TraceUpdate(t, s, next, evicted) == [t EXCEPT !.inner = Append(@, next)]

(***************************************************************************)
(* Stat: the pair (HitCount, MissCount) (src/src/stats.rs).                *)
(***************************************************************************)
\* A faulty HitCount that counts the accesses that evict nothing instead of the
\* hits (C14 must tell it from the real one).
HitCountUpdate_Fits(count, s, next) ==
    IF Contains(s, next) \/ Cardinality(s) < 2 THEN count + 1 ELSE count

HitCountUpdate(count, s, next) == IF Contains(s, next) THEN count + 1 ELSE count

MissCountUpdate(count, s, next) == IF ~Contains(s, next) THEN count + 1 ELSE count

\* Stat::update of the cache's S: of the pair (HitCount, MissCount), or of a
\* Trace when the cache is built with a Trace as its Stat.
StatUpdate(st, s, next, evicted) ==
    IF "inner" \in DOMAIN st
    THEN TraceUpdate(st, s, next, evicted)
    ELSE [hits |-> HitCountUpdate(st.hits, s, next),
          misses |-> MissCountUpdate(st.misses, s, next)]

(***************************************************************************)
(* Cache (src/src/cache.rs).                                               *)
(***************************************************************************)
used_capacity(s) == SumSizes(s)

\* A faulty has_capacity_for that refuses an item that exactly fills the cache
\* (C10 must tell it from the real one).
has_capacity_for_Strict(s, cap, item) == used_capacity(s) + item.size < cap

has_capacity_for(s, cap, item) == used_capacity(s) + item.size <= cap

\* Whether access takes its first branch (no eviction) for item.
NoEvictionBranch(s, cap, item) == Contains(s, item) \/ has_capacity_for(s, cap, item)

\* What a stage observes: the stage, the cache's set and the number of policy
\* updates at that moment, and the arguments the stage worked with.
Event(name, m, next, evicted) ==
    [event |-> name, set |-> m.set, updates |-> m.replacement_policy.updates,
     next |-> next, evicted |-> evicted]

\* The policy call of access: update_state in the first branch, replace in the
\* second.  o is the outcome of the call.
PolicyStage(m, next, o, name) ==
    LET m1 == [m EXCEPT !.replacement_policy = o.rp, !.to_evict = o.to_evict,
                        !.status = IF o.ok THEN "ok" ELSE "panicked"]
    IN [m1 EXCEPT !.trail = Append(@, Event(name, m1, next, o.to_evict))]

\* self.stat.update(&self.set, item, &to_evict)
StatStage(m, next) ==
    [m EXCEPT !.stat = StatUpdate(m.stat, m.set, next, m.to_evict),
              !.trail = Append(@, Event("stat", m, next, m.to_evict))]

\* for item in to_evict { self.set.remove(&item); }
RemoveStage(m, next) ==
    LET m1 == [m EXCEPT !.set = RemoveAll(m.set, m.to_evict)]
    IN [m1 EXCEPT !.trail = Append(@, Event("remove", m1, next, m.to_evict))]

\* A faulty insertion that leaves a missed item out of the set (C11 must tell
\* it from the real one).
InsertStage_Skip(m, next) ==
    [m EXCEPT !.trail = Append(@, Event("insert", m, next, m.to_evict))]

\* self.set.insert(item)
InsertStage(m, next) ==
    LET m1 == [m EXCEPT !.set = Insert(m.set, next)]
    IN [m1 EXCEPT !.trail = Append(@, Event("insert", m1, next, m.to_evict))]

\* A cache without the final assertion: access returns whatever the set holds
\* (C12 must tell it from the real one).
AssertStage_Silent(m, cap, next) ==
    [m EXCEPT !.trail = Append(@, Event("assert", m, next, m.to_evict))]

\* assert!(self.capacity >= self.used_capacity())
AssertStage(m, cap, next) ==
    LET m1 == [m EXCEPT !.status = IF cap >= used_capacity(m.set)
                                   THEN "ok" ELSE "panicked"]
    IN [m1 EXCEPT !.trail = Append(@, Event("assert", m1, next, m.to_evict))]

\* The first branch of access after the branch is chosen.
AccessNoEviction(m, cap, next) ==
    LET o == Returned(UpdateState(m.replacement_policy, m.set, cap, next), {})
    IN AssertStage(InsertStage(StatStage(PolicyStage(m, next, o, "update_state"),
                                         next), next), cap, next)

\* A faulty second branch that invokes the Stat hook before the policy (C9 must
\* tell it from the real one).
AccessEviction_StatFirst(m, cap, next, o) ==
    LET m1 == PolicyStage(StatStage(m, next), next, o, "replace")
    IN IF o.ok
       THEN AssertStage(InsertStage(RemoveStage(m1, next), next), cap, next)
       ELSE m1

\* The second branch of access for the outcome o of replace; a panic of replace
\* ends the call.
AccessEviction(m, cap, next, o) ==
    LET m1 == PolicyStage(m, next, o, "replace")
    IN IF o.ok
       THEN AssertStage(InsertStage(RemoveStage(StatStage(m1, next), next), next),
                        cap, next)
       ELSE m1

\* Cache::access: the states the call may end in.
access(m, cap, next) ==
    IF NoEvictionBranch(m.set, cap, next)
    THEN {AccessNoEviction(m, cap, next)}
    ELSE {AccessEviction(m, cap, next, o) :
             o \in Replace(m.replacement_policy, m.set, cap, next)}

(***************************************************************************)
(* Trace (src/src/trace.rs): the items of a trace and its strides.         *)
(***************************************************************************)
RECURSIVE trace_strides(_)
\* trace_strides: the differences of the ids of consecutive items.
trace_strides(items) ==
    IF Len(items) < 2 THEN <<>>
    ELSE Append(trace_strides(SubSeq(items, 1, Len(items) - 1)),
                items[Len(items)].id - items[Len(items) - 1].id)

\* Trace::from(vec): the items, and the strides computed from them.
From(items) == [inner |-> items, strides |-> trace_strides(items)]

\* Option<u32>.
None == [some |-> FALSE, value |-> 0]

Some(d) == [some |-> TRUE, value |-> d]

\* The bound of the size sum in stack_distances: a sum that has reached it
\* grows no further.
SizeSumLimit == 1000000000

RECURSIVE FoldSizes(_, _)
\* .map(|i| i.size()).fold(0, |sum, val| if sum < 1000000000 {sum + val} else {sum})
FoldSizes(items, sum) ==
    IF items = <<>> THEN sum
    ELSE FoldSizes(Tail(items), IF sum < SizeSumLimit THEN sum + Head(items).size ELSE sum)

\* A faulty distance that counts the items from the bottom of the stack up to
\* the previous access instead of those above it (C18 must tell it from the
\* real one).
StackDistance_Below(stack, position, paging_model) ==
    IF paging_model
    THEN position - 1
    ELSE FoldSizes(SubSeq(stack, 1, position - 1), 0)

\* The distance of an access whose item is at `position` of the stack: the
\* number, or the sum of the sizes, of the entries above it.
StackDistance(stack, position, paging_model) ==
    IF paging_model
    THEN Len(SubSeq(stack, position + 1, Len(stack)))
    ELSE FoldSizes(SubSeq(stack, position + 1, Len(stack)), 0)

RECURSIVE StackDistancesLoop(_, _, _, _, _)
\* The loop of Trace::stack_distances from the i-th item on.
StackDistancesLoop(items, i, stack, dist, paging_model) ==
    IF i > Len(items) THEN dist
    ELSE LET curr == items[i]
             position == Position(stack, curr)
         IN IF position > 0
            THEN StackDistancesLoop(items, i + 1,
                     Append(RemoveAt(stack, position), curr),
                     [dist EXCEPT ![i] = Some(StackDistance(stack, position, paging_model))],
                     paging_model)
            ELSE StackDistancesLoop(items, i + 1, Append(stack, curr),
                     [dist EXCEPT ![i] = None], paging_model)

\* Trace::stack_distances: the StackDistance's inner vector.
stack_distances(t, paging_model) ==
    StackDistancesLoop(t.inner, 1, <<>>, [i \in 1..Len(t.inner) |-> Some(0)],
                       paging_model)

RECURSIVE HistogramLoop(_, _, _, _)
\* The loop of StackDistance::histogram from the i-th distance on.
HistogramLoop(inner, i, freqs, infinities) ==
    IF i > Len(inner) THEN [freqs |-> freqs, infinities |-> infinities]
    ELSE IF inner[i].some
         THEN HistogramLoop(inner, i + 1,
                            [freqs EXCEPT ![inner[i].value + 1] = @ + 1], infinities)
         ELSE HistogramLoop(inner, i + 1, freqs, infinities + 1)

\* A faulty histogram whose freqs is one entry too long (C19 must tell it from
\* the real one).
histogram_Long(inner) ==
    LET finite == {inner[i].value : i \in {x \in 1..Len(inner) : inner[x].some}}
    IN IF finite = {}
       THEN HistogramLoop(inner, 1, <<>>, 0)
       ELSE LET max == CHOOSE m \in finite : \A d \in finite : d <= m
            IN HistogramLoop(inner, 1, [k \in 1..(max + 2) |-> 0], 0)

\* StackDistance::histogram: freqs is empty when no distance is finite, else it
\* has the largest finite distance + 1 zeros before the loop.  (The vector is
\* indexed from 1 here: freqs[d + 1] is the source's freqs[d].)
histogram_of(inner) ==
    LET finite == {inner[i].value : i \in {x \in 1..Len(inner) : inner[x].some}}
    IN IF finite = {}
       THEN HistogramLoop(inner, 1, <<>>, 0)
       ELSE LET max == CHOOSE m \in finite : \A d \in finite : d <= m
            IN HistogramLoop(inner, 1, [k \in 1..(max + 1) |-> 0], 0)

(***************************************************************************)
(* Conditions (src/src/condition.rs) and the frequency histograms.  A      *)
(* Condition is a record of its type and, for LastNItems, its items.  An   *)
(* index is an index of the source: it counts from 0.  A HashMap is a      *)
(* function from its keys: the ids of the items, or the strides.           *)
(***************************************************************************)
NoCondition == [kind |-> "NoCondition", items |-> <<>>]

\* LastNItems::new
LastNItems(items) == [kind |-> "LastNItems", items |-> items]

\* trace[from..to] == items: slices are equal when they are as long and their
\* items are equal one by one.
SliceEq(inner, from, to, items) ==
    /\ to - from = Len(items)
    /\ \A k \in 1..Len(items) : ItemEq(inner[from + k], items[k])

\* What a call gives back: a value, or a panic.
Value(n) == [ok |-> TRUE, value |-> n]

Panic == [ok |-> FALSE, value |-> 0]

\* The closure linear_function_continuation hands to stride_histogram for a
\* run length of prefix.
LinearRun(prefix) == [kind |-> "LinearRun", items |-> <<>>, prefix |-> prefix]

\* A faulty closure whose slice ends one stride later (C39 must tell it from
\* the real one).
LinearRunCheck_Beyond(t, i, prefix) ==
    IF i < prefix THEN Value(FALSE)
    ELSE IF i + 2 > Len(t.strides) THEN Panic
    ELSE Value(\A k \in (i - prefix + 1)..(i + 2) :
                  t.strides[k] = t.strides[i - prefix + 1])

\* That closure at index i: i >= prefix, and the strides of the slice
\* [i-prefix..i+1] are all the same.  A slice that ends beyond the strides
\* panics.
LinearRunCheck(t, i, prefix) ==
    IF i < prefix THEN Value(FALSE)
    ELSE IF i + 1 > Len(t.strides) THEN Panic
    ELSE Value(\A k \in (i - prefix + 1)..(i + 1) :
                  t.strides[k] = t.strides[i - prefix + 1])

\* A faulty LastNItems::check whose test of the index is strict (C38 must tell
\* it from the real one).
Check_Strict(c, t, index) ==
    IF c.kind = "NoCondition"
    THEN TRUE
    ELSE IF c.kind = "LinearRun"
    THEN LinearRunCheck(t, index, c.prefix).value
    ELSE IF index > Len(c.items)
         THEN SliceEq(t.inner, index - Len(c.items), index, c.items)
         ELSE FALSE

\* Condition::check(trace, index), where it returns.
Check(c, t, index) ==
    IF c.kind = "NoCondition"
    THEN TRUE
    ELSE IF c.kind = "LinearRun"
    THEN LinearRunCheck(t, index, c.prefix).value
    ELSE IF index >= Len(c.items)
         THEN SliceEq(t.inner, index - Len(c.items), index, c.items)
         ELSE FALSE

\* Condition::check(trace, index): what it returns, or the panic of a slice
\* that ends beyond the trace.
CheckOutcome(c, t, index) ==
    IF c.kind = "LinearRun"
    THEN LinearRunCheck(t, index, c.prefix)
    ELSE IF c.kind = "LastNItems" /\ index >= Len(c.items) /\ index > Len(t.inner)
    THEN Panic
    ELSE Value(Check(c, t, index))

\* *freqs.entry(key).or_insert(0) += 1
Increment(freqs, key) ==
    [k \in DOMAIN freqs \cup {key} |->
        (IF k \in DOMAIN freqs THEN freqs[k] ELSE 0) + (IF k = key THEN 1 ELSE 0)]

RECURSIVE FrequencyLoop_Zeroes(_, _, _, _)
\* A faulty loop that makes an entry for every item it meets and adds to it
\* only when the condition holds, so that items counted zero times get an
\* entry of 0 (C21 must tell it from the real one).
FrequencyLoop_Zeroes(t, c, i, freqs) ==
    IF i >= Len(t.inner)
    THEN freqs
    ELSE LET key == t.inner[i + 1].id
             made == [k \in DOMAIN freqs \cup {key} |->
                         IF k \in DOMAIN freqs THEN freqs[k] ELSE 0]
         IN FrequencyLoop_Zeroes(t, c, i + 1,
                IF Check(c, t, i) THEN Increment(made, key) ELSE made)

RECURSIVE FrequencyLoop(_, _, _, _)
\* The loop of frequency_histogram from index i on.
FrequencyLoop(t, c, i, freqs) ==
    IF i >= Len(t.inner)
    THEN freqs
    ELSE FrequencyLoop(t, c, i + 1,
             IF Check(c, t, i) THEN Increment(freqs, t.inner[i + 1].id) ELSE freqs)

frequency_histogram(t, c) == FrequencyLoop(t, c, 0, EmptyMap)

RECURSIVE StrideLoop(_, _, _, _)
\* The loop of stride_histogram from index i on: the condition is asked about
\* index i of the trace, the key is strides[i].
StrideLoop(t, c, i, freqs) ==
    IF i >= Len(t.strides)
    THEN freqs
    ELSE StrideLoop(t, c, i + 1,
             IF Check(c, t, i) THEN Increment(freqs, t.strides[i + 1]) ELSE freqs)

stride_histogram(t, c) == StrideLoop(t, c, 0, EmptyMap)

\* One pass of the inner loop of frequency_histogram_many at index i, for the
\* item histograms: every name whose entry is (condition, false) and whose
\* condition holds at i gets its histogram made (or_insert) and counted up.
ManyItemsAt(t, conditions, i, dists) ==
    LET hit == {name \in DOMAIN conditions :
                   ~conditions[name].use_stride /\ Check(conditions[name].condition, t, i)}
    IN [name \in DOMAIN dists \cup hit |->
           LET h == IF name \in DOMAIN dists THEN dists[name] ELSE EmptyMap
           IN IF name \in hit THEN Increment(h, t.inner[i + 1].id) ELSE h]

\* The same pass for the stride histograms: the names whose entry is
\* (condition, true), when i is an index of strides and the condition holds.
ManyStridesAt(t, conditions, i, dists2) ==
    LET hit == {name \in DOMAIN conditions :
                   /\ conditions[name].use_stride
                   /\ i < Len(t.strides)
                   /\ Check(conditions[name].condition, t, i)}
    IN [name \in DOMAIN dists2 \cup hit |->
           LET h == IF name \in DOMAIN dists2 THEN dists2[name] ELSE EmptyMap
           IN IF name \in hit THEN Increment(h, t.strides[i + 1]) ELSE h]

RECURSIVE ManyLoop(_, _, _, _, _)
\* The outer loop of frequency_histogram_many from index i on.
ManyLoop(t, conditions, i, dists, dists2) ==
    IF i >= Len(t.inner)
    THEN [items |-> dists, strides |-> dists2]
    ELSE ManyLoop(t, conditions, i + 1, ManyItemsAt(t, conditions, i, dists),
                  ManyStridesAt(t, conditions, i, dists2))

\* trace.frequency_histogram_many(&conditions): the pair (dists, dists2).
frequency_histogram_many(t, conditions) == ManyLoop(t, conditions, 0, EmptyMap, EmptyMap)

(***************************************************************************)
(* entropy.  The source computes in f64; the model computes the same sum   *)
(* exactly, as the fraction num / den, for the histograms whose every      *)
(* bucket holds total / 2^e of the total count (dyadic): there count /     *)
(* total and its log2, -e, are f64 values without rounding.  For any other *)
(* histogram the value is not a fraction and the model gives none.         *)
(***************************************************************************)
RECURSIVE ValuesSum(_)
\* histogram.values().sum()
ValuesSum(h) ==
    IF DOMAIN h = {} THEN 0
    ELSE LET k == CHOOSE x \in DOMAIN h : TRUE
         IN h[k] + ValuesSum([x \in DOMAIN h \ {k} |-> h[x]])

\* Whether count / total is 1 / 2^e for some e, and that e: -log2(count / total).
Dyadic(count, total) ==
    count > 0 /\ total % count = 0 /\ \E e \in 0..total : 2 ^ e = total \div count

NegLog2(count, total) == CHOOSE e \in 0..total : 2 ^ e = total \div count

RECURSIVE TermsSum(_, _)
\* The sum of (i / total) * log2(i / total) over the values i, in units of
\* 1 / total: each term is -i * e.
TermsSum(h, total) ==
    IF DOMAIN h = {} THEN 0
    ELSE LET k == CHOOSE x \in DOMAIN h : TRUE
         IN (0 - h[k] * NegLog2(h[k], total))
               + TermsSum([x \in DOMAIN h \ {k} |-> h[x]], total)

\* A faulty entropy without the leading minus sign (C24 must tell it from the
\* real one).
entropy_Unnegated(h) ==
    LET total == ValuesSum(h)
    IN IF \A k \in DOMAIN h : Dyadic(h[k], total)
       THEN [dyadic |-> TRUE, num |-> TermsSum(h, total),
             den |-> IF total = 0 THEN 1 ELSE total]
       ELSE [dyadic |-> FALSE, num |-> 0, den |-> 1]

\* entropy(&histogram)
entropy(h) ==
    LET total == ValuesSum(h)
    IN IF \A k \in DOMAIN h : Dyadic(h[k], total)
       THEN [dyadic |-> TRUE, num |-> 0 - TermsSum(h, total),
             den |-> IF total = 0 THEN 1 ELSE total]
       ELSE [dyadic |-> FALSE, num |-> 0, den |-> 1]

(***************************************************************************)
(* average_entropy and stride_entropy.  Both make, in one loop, the count  *)
(* of every context (the `prefix` symbols before an index: freqs) and the  *)
(* histogram of the symbols that follow it (distributions), and then sum   *)
(* count / (self.len() - prefix) * entropy(histogram) over the contexts.   *)
(* A context is a sequence of ids, or of strides.  The histogram of a      *)
(* context sums to its count, so a term is the numerator of the entropy    *)
(* over self.len() - prefix: the sum is exact where every entropy is.      *)
(***************************************************************************)
\* *distributions.entry(seq).or_insert(HashMap::default()).entry(key).or_insert(0) += 1
IncrementIn(distributions, seq, key) ==
    [q \in DOMAIN distributions \cup {seq} |->
        LET h == IF q \in DOMAIN distributions THEN distributions[q] ELSE EmptyMap
        IN IF q = seq THEN Increment(h, key) ELSE h]

RECURSIVE ContextLoop(_, _, _, _, _)
\* The counting loop over the symbols v from index i on.
ContextLoop(v, prefix, i, freqs, distributions) ==
    IF i >= Len(v)
    THEN [freqs |-> freqs, distributions |-> distributions]
    ELSE LET seq == SubSeq(v, i - prefix + 1, i)
         IN ContextLoop(v, prefix, i + 1, Increment(freqs, seq),
                        IncrementIn(distributions, seq, v[i + 1]))

RECURSIVE EntropiesSum(_)
\* The sum of the numerators of the entropies of the histograms.
EntropiesSum(distributions) ==
    IF DOMAIN distributions = {} THEN 0
    ELSE LET q == CHOOSE x \in DOMAIN distributions : TRUE
         IN entropy(distributions[q]).num
               + EntropiesSum([x \in DOMAIN distributions \ {q} |-> distributions[x]])

\* The summing loop: every context is weighted by count / denominator.  The
\* result is the returned sum (value) and, as ghosts, the weights it was made
\* with.
WeightedSum(counted, denominator) ==
    [weights |-> [q \in DOMAIN counted.freqs |->
                     [num |-> counted.freqs[q], den |-> denominator]],
     value |-> IF DOMAIN counted.freqs = {}
               THEN [dyadic |-> TRUE, num |-> 0, den |-> 1]
               ELSE IF \A q \in DOMAIN counted.distributions :
                          entropy(counted.distributions[q]).dyadic
                    THEN [dyadic |-> TRUE, num |-> EntropiesSum(counted.distributions),
                          den |-> denominator]
                    ELSE [dyadic |-> FALSE, num |-> 0, den |-> 1]]

\* trace.average_entropy(prefix): the loop runs over prefix..self.inner.len().
average_entropy(t, prefix) ==
    WeightedSum(ContextLoop([k \in 1..Len(t.inner) |-> t.inner[k].id], prefix, prefix,
                            EmptyMap, EmptyMap),
                Len(t.inner) - prefix)

\* trace.stride_entropy(prefix): the loop runs over prefix..self.strides.len(),
\* the weights divide by self.len() - prefix.
stride_entropy(t, prefix) ==
    WeightedSum(ContextLoop(t.strides, prefix, prefix, EmptyMap, EmptyMap),
                Len(t.inner) - prefix)

(***************************************************************************)
(* num_items and num_strides: the size of the HashSet of the windows the   *)
(* loop inserts.  self.inner.len() - length is a usize: when length is     *)
(* longer than the vector the subtraction overflows, which panics in a     *)
(* debug build and wraps in a release build, where the first slice         *)
(* [0..length] is then out of range and panics as well.                    *)
(***************************************************************************)
\* The windows v[i..i+length] for i in 0..(v.len() - length).
Windows(v, length) == {SubSeq(v, i + 1, i + length) : i \in 0..(Len(v) - length - 1)}

\* trace.num_items(length)
num_items(t, length) ==
    IF length > Len(t.inner) THEN Panic
    ELSE Value(Cardinality(Windows([k \in 1..Len(t.inner) |-> t.inner[k].id], length)))

\* trace.num_strides(length)
num_strides(t, length) ==
    IF length > Len(t.strides) THEN Panic
    ELSE Value(Cardinality(Windows(t.strides, length)))

\* No histogram has been asked for.
NoEntropy == [dyadic |-> TRUE, num |-> 0, den |-> 1]

\* No other function of the Trace has been called.
NoAnalysis == [op |-> "none", arg |-> <<>>, ret |-> <<>>]

\* linear_function_continuation has not been called.
NoContinuation == [pc |-> "none", prefix |-> 0, max_prefix |-> 0, probs |-> <<>>]

NoFrequencies ==
    /\ frequencies = EmptyMap
    /\ condition = NoCondition
    /\ entropy_value = NoEntropy
    /\ analysis = NoAnalysis
    /\ continuation = NoContinuation

\* The Trace of a run that uses none.
NoTrace ==
    /\ trace = Default
    /\ distances = <<>>
    /\ histogram = [freqs |-> <<>>, infinities |-> 0]
    /\ trace_call = [op |-> "none", paging_model |-> FALSE]
    /\ NoFrequencies

(***************************************************************************)
(* Tuples of Stats (src/src/stats.rs).  The trait is implemented for the   *)
(* tuples of Stats: the update of a tuple calls the update of each member, *)
(* in the order of the tuple, with the arguments it was given.  A member   *)
(* is a record of its type and its value.                                  *)
(***************************************************************************)
StatTypes == {"HitCount", "MissCount", "Trace"}

\* Default::default() of a Stat type.
StatDefault(type) == IF type = "Trace" THEN Default ELSE 0

\* Stat::update of one Stat of the given type.
MemberUpdate(type, value, s, next, evicted) ==
    CASE type = "HitCount" -> HitCountUpdate(value, s, next)
      [] type = "MissCount" -> MissCountUpdate(value, s, next)
      [] type = "Trace" -> TraceUpdate(value, s, next, evicted)

\* A faulty tuple whose update reaches its first member only (C15 must tell it
\* from the real one).
TupleUpdate_FirstOnly(tp, s, next, evicted) ==
    [i \in 1..Len(tp) |->
        IF i = 1
        THEN [tp[i] EXCEPT !.value = MemberUpdate(tp[i].type, @, s, next, evicted)]
        ELSE tp[i]]

\* Stat::update of a tuple.
TupleUpdate(tp, s, next, evicted) ==
    [i \in 1..Len(tp) |->
        [tp[i] EXCEPT !.value = MemberUpdate(tp[i].type, @, s, next, evicted)]]

\* Default::default() of the tuple type with the given member types.
TupleDefault(types) ==
    [i \in 1..Len(types) |-> [type |-> types[i], value |-> StatDefault(types[i])]]

\* The tuple and the lone Stats of a run that uses none.
NoTuple ==
    /\ tuple = <<>>
    /\ alone = [type \in StatTypes |-> StatDefault(type)]

(***************************************************************************)
(* The state machine of the cache.                                         *)
(***************************************************************************)
Policies == {"Lru", "Fifo", "Rand", "Mru", "Lfu", "Landlord"}

\* The values of Landlord's credit_increase: the default 1.0, and 0.5.
CreditIncreases(kind) ==
    IF kind = "Landlord"
    THEN {[num |-> 1, den |-> 1], [num |-> 1, den |-> 2]}
    ELSE {[num |-> 1, den |-> 1]}

\* No direct call of the tiebreaker has been made.
NoTiebreak == [from |-> {}, size_to_free |-> 0, ret |-> {}, outcome |-> "none"]

\* Cache::new and Cache::with_replacement_policy: an empty cache.
Init ==
    /\ item_model \in {"u32", "GeneralModelItem"}
    /\ capacity \in 1..MaxCapacity
    /\ \E kind \in Policies : \E ci \in CreditIncreases(kind) :
          replacement_policy = NewPolicy(kind, ci)
    /\ set = {}
    /\ stat = [hits |-> 0, misses |-> 0]
    /\ status = "ok"
    /\ history = <<>>
    /\ policy_before = replacement_policy
    /\ trail = <<>>
    /\ run_len = 0
    /\ tiebreak = NoTiebreak
    /\ NoTuple
    /\ NoTrace

\* One call of Cache::access on a cache that has not panicked.
Access(item) ==
    /\ status = "ok"
    /\ Len(history) < MaxAccesses
    /\ \E m \in access([set |-> set, replacement_policy |-> replacement_policy,
                        stat |-> stat, to_evict |-> {}, status |-> "ok",
                        trail |-> <<>>], capacity, item) :
          /\ set' = m.set
          /\ replacement_policy' = m.replacement_policy
          /\ stat' = m.stat
          /\ status' = m.status
          /\ trail' = m.trail
    /\ history' = Append(history, [item |-> item, set |-> set])
    /\ policy_before' = replacement_policy
    /\ UNCHANGED <<capacity, item_model, run_len, tiebreak, stat_vars, trace_vars>>

Next == \E item \in Items(item_model) : Access(item)

Spec == Init /\ [][Next]_vars

(***************************************************************************)
(* The state machine of run_trace: a fresh cache on which every step is    *)
(* one call of Cache::run_trace with a trace of up to MaxRunLen items.     *)
(***************************************************************************)
\* The cache as a call of access inside run_trace finds it: the ghosts of the
\* call before are reset, the policy and the set before the call are noted.
BeforeCall(m) ==
    [m EXCEPT !.trail = <<>>, !.to_evict = {},
              !.policy_before = m.replacement_policy,
              !.befores = Append(@, m.set)]

\* A faulty run_trace that walks the trace from its end (C16 must tell it from
\* the real one).
RECURSIVE run_trace_Backwards(_, _, _)
run_trace_Backwards(m, cap, t) ==
    IF t.inner = <<>> \/ m.status # "ok"
    THEN {m}
    ELSE UNION {run_trace_Backwards(m2, cap, From(SubSeq(t.inner, 1, Len(t.inner) - 1))) :
                   m2 \in access(BeforeCall(m), cap, t.inner[Len(t.inner)])}

\* Cache::run_trace: for item in trace { self.access(*item) }, from the first
\* item on; a panic of access ends the loop.  The states it may end in.
RECURSIVE run_trace(_, _, _)
run_trace(m, cap, t) ==
    IF t.inner = <<>> \/ m.status # "ok"
    THEN {m}
    ELSE UNION {run_trace(m2, cap, From(Tail(t.inner))) :
                   m2 \in access(BeforeCall(m), cap, Head(t.inner))}

\* The items of the traces of the run, and the traces: Trace::from of a vector
\* of up to MaxRunLen items.
RunItems(model) == {i \in Items(model) : i.id < NumRunItems}

RunTraces(model) ==
    {From(v) : v \in UNION {[1..n -> RunItems(model)] : n \in 0..MaxRunLen}}

RunInit ==
    /\ Init
    /\ capacity < MaxCapacity

\* One call of Cache::run_trace on a cache that has not panicked.
RunTraceOf(t) ==
    /\ status = "ok"
    /\ \E m \in run_trace([set |-> set, replacement_policy |-> replacement_policy,
                           stat |-> stat, to_evict |-> {}, status |-> "ok",
                           trail |-> trail, policy_before |-> policy_before,
                           befores |-> <<>>], capacity, t) :
          /\ set' = m.set
          /\ replacement_policy' = m.replacement_policy
          /\ stat' = m.stat
          /\ status' = m.status
          /\ trail' = m.trail
          /\ policy_before' = m.policy_before
          /\ history' = history \o [k \in 1..Len(m.befores) |->
                                        [item |-> t.inner[k], set |-> m.befores[k]]]
    /\ run_len' = Len(t.inner)
    /\ UNCHANGED <<capacity, item_model, tiebreak, stat_vars, trace_vars>>

\* The calls of the run: up to MaxRunTotal accesses in all.
RunTrace(t) ==
    /\ Len(history) + Len(t.inner) <= MaxRunTotal
    /\ RunTraceOf(t)

RunNext == \E t \in RunTraces(item_model) : RunTrace(t)

RunSpec == RunInit /\ [][RunNext]_vars

\* The cache of a run that uses none: a fresh cache that is never accessed.
IdleCache ==
    /\ capacity = 1
    /\ replacement_policy = NewPolicy("Lru", [num |-> 1, den |-> 1])
    /\ set = {}
    /\ stat = [hits |-> 0, misses |-> 0]
    /\ status = "ok"
    /\ history = <<>>
    /\ policy_before = replacement_policy
    /\ trail = <<>>
    /\ run_len = 0
    /\ tiebreak = NoTiebreak

NoCache == item_model = "u32" /\ IdleCache

(***************************************************************************)
(* The state machine of an Lru used as a Tiebreaker: a fresh Lru whose     *)
(* stack is built by up to MaxAccesses calls of update_state and which is  *)
(* then asked once to break ties: tiebreak(from, size_to_free) for any set *)
(* of items and a size of up to MaxFree.  The call returns, panics (the    *)
(* assertion) or never returns (no candidate left on the stack).           *)
(***************************************************************************)
TiebreakInit ==
    /\ item_model \in {"u32", "GeneralModelItem"}
    /\ IdleCache
    /\ NoTuple
    /\ NoTrace

\* tiebreaker.update_state(set, capacity, next), before the first tiebreak.
TiebreakerUpdate(next) ==
    /\ tiebreak.outcome = "none"
    /\ replacement_policy.updates < MaxAccesses
    /\ replacement_policy' = LruUpdateState(Begin(replacement_policy), set, capacity, next)
    /\ UNCHANGED <<set, capacity, stat, status, item_model, history, policy_before,
                   trail, run_len, tiebreak, stat_vars, trace_vars>>

\* tiebreaker.tiebreak(from, size_to_free)
Tiebreak(from, size_to_free) ==
    /\ tiebreak.outcome = "none"
    /\ LET t == LruTiebreak(replacement_policy.stack, {i.id : i \in from}, size_to_free)
       IN tiebreak' = [from |-> from, size_to_free |-> size_to_free, ret |-> t.ret,
                       outcome |-> IF t.hang THEN "hang"
                                   ELSE IF t.ok THEN "returned" ELSE "panicked"]
    /\ UNCHANGED <<set, replacement_policy, capacity, stat, status, item_model, history,
                   policy_before, trail, run_len, stat_vars, trace_vars>>

TiebreakNext ==
    \/ \E next \in Items(item_model) : TiebreakerUpdate(next)
    \/ \E from \in SUBSET Items(item_model) : \E size_to_free \in 0..MaxFree :
          Tiebreak(from, size_to_free)

TiebreakSpec == TiebreakInit /\ [][TiebreakNext]_vars

(***************************************************************************)
(* The state machine of a tuple of Stats: a tuple of up to MaxTuple        *)
(* members is built by Default and observes up to MaxEvents events; next   *)
(* to it, one Stat of each type observes the same events alone.            *)
(***************************************************************************)
\* The items and the sets of items of the events.
StatItems == {U32Item(i) : i \in 0..(NumStatItems - 1)}

\* The tuple types of up to MaxTuple members.
TupleTypes == UNION {[1..n -> StatTypes] : n \in 0..MaxTuple}

StatInit ==
    /\ NoCache
    /\ NoTrace
    /\ \E types \in TupleTypes : tuple = TupleDefault(types)
    /\ alone = [type \in StatTypes |-> StatDefault(type)]

\* One event: the tuple's update, and the update of each lone Stat.
Update(s, next, evicted) ==
    /\ Len(alone["Trace"].inner) < MaxEvents
    /\ tuple' = TupleUpdate(tuple, s, next, evicted)
    /\ alone' = [type \in StatTypes |-> MemberUpdate(type, alone[type], s, next, evicted)]
    /\ UNCHANGED <<cache_vars, trace_vars>>

StatNext ==
    \E next \in StatItems : \E s \in SUBSET StatItems : \E evicted \in SUBSET s :
        Update(s, next, evicted)

StatSpec == StatInit /\ [][StatNext]_vars

(***************************************************************************)
(* The state machine of a Trace: it is built by Default or from a vector   *)
(* of up to MaxTraceLen items (or of the items of the doc example), grows  *)
(* by the appends of Stat::update, and is then analysed: stack_distances,  *)
(* and histogram on its result.                                            *)
(***************************************************************************)
\* The trace of the doc example of stack_distances.
DocExample == <<0, 0, 1, 0, 3, 0, 1>>

\* The traces of the tests basic_uniform and unbalanced of entropy.
EntropyTests == {<<0, 1, 1, 0, 1, 0>>, <<0, 1, 2, 0, 2, 0, 0, 3>>}

TraceVectors(model) ==
    UNION {[1..n -> Items(model)] : n \in 0..MaxTraceLen}
        \cup (IF model = "u32"
              THEN {[k \in 1..Len(v) |-> U32Item(v[k])] :
                       v \in {DocExample} \cup EntropyTests}
              ELSE {})

TraceInit ==
    /\ item_model \in {"u32", "GeneralModelItem"}
    /\ IdleCache
    /\ NoTuple
    /\ trace \in {Default} \cup {From(v) : v \in TraceVectors(item_model)}
    /\ distances = <<>>
    /\ histogram = [freqs |-> <<>>, infinities |-> 0]
    /\ trace_call = [op |-> "new", paging_model |-> FALSE]
    /\ NoFrequencies

\* Stat::update on the Trace, before it is analysed.
TraceAppend(s, next, evicted) ==
    /\ trace_call.op \in {"new", "update"}
    /\ Len(trace.inner) < MaxTraceLen
    /\ trace' = TraceUpdate(trace, s, next, evicted)
    /\ trace_call' = [op |-> "update", paging_model |-> FALSE]
    /\ UNCHANGED <<cache_vars, stat_vars, distances, histogram, frequencies, condition,
                   entropy_value, analysis_vars>>

\* trace.stack_distances(paging_model)
StackDistances(paging_model) ==
    /\ trace_call.op \in {"new", "update"}
    /\ distances' = stack_distances(trace, paging_model)
    /\ trace_call' = [op |-> "stack_distances", paging_model |-> paging_model]
    /\ UNCHANGED <<cache_vars, stat_vars, trace, histogram, frequencies, condition,
                   entropy_value, analysis_vars>>

\* distances.histogram()
Histogram ==
    /\ trace_call.op = "stack_distances"
    /\ histogram' = histogram_of(distances)
    /\ trace_call' = [trace_call EXCEPT !.op = "histogram"]
    /\ UNCHANGED <<cache_vars, stat_vars, trace, distances, frequencies, condition,
                   entropy_value, analysis_vars>>

\* The conditions of the run: NoCondition, and LastNItems of no item, of one
\* and of two of the first NumStatItems items.
Conditions(model) ==
    LET few == {i \in Items(model) : i.id < NumStatItems}
    IN {NoCondition, LastNItems(<<>>)}
          \cup {LastNItems(<<a>>) : a \in few}
          \cup {LastNItems(<<a, b>>) : a \in few, b \in few}

\* The histograms the run asks for: any of a trace as it was built, and those
\* under NoCondition of a trace grown by appends.
MayCount(c) ==
    \/ trace_call.op = "new"
    \/ trace_call.op = "update" /\ c = NoCondition

\* trace.frequency_histogram(&c)
FrequencyHistogram(c) ==
    /\ MayCount(c)
    /\ frequencies' = frequency_histogram(trace, c)
    /\ condition' = c
    /\ trace_call' = [op |-> "frequency_histogram", paging_model |-> FALSE]
    /\ UNCHANGED <<cache_vars, stat_vars, trace, distances, histogram, entropy_value,
                   analysis_vars>>

\* trace.stride_histogram(&c)
StrideHistogram(c) ==
    /\ MayCount(c)
    /\ frequencies' = stride_histogram(trace, c)
    /\ condition' = c
    /\ trace_call' = [op |-> "stride_histogram", paging_model |-> FALSE]
    /\ UNCHANGED <<cache_vars, stat_vars, trace, distances, histogram, entropy_value,
                   analysis_vars>>

\* entropy(&frequencies)
Entropy ==
    /\ trace_call.op \in {"frequency_histogram", "stride_histogram"}
    /\ entropy_value' = entropy(frequencies)
    /\ trace_call' = [trace_call EXCEPT !.op = "entropy"]
    /\ UNCHANGED <<cache_vars, stat_vars, trace, distances, histogram, frequencies,
                   condition, analysis_vars>>

TraceNext ==
    \/ \E next \in Items(item_model) : \E s \in {{}, {next}} : TraceAppend(s, next, {})
    \/ \E paging_model \in BOOLEAN : StackDistances(paging_model)
    \/ Histogram
    \/ \E c \in Conditions(item_model) : FrequencyHistogram(c)
    \/ \E c \in Conditions(item_model) : StrideHistogram(c)
    \/ Entropy

TraceSpec == TraceInit /\ [][TraceNext]_vars

(***************************************************************************)
(* The state machine of a cache whose caller builds general-model items    *)
(* freely: next to the items of the run, GeneralModelItem::new is also     *)
(* called with the uid of such an item and another cost and size.          *)
(***************************************************************************)
\* The items of the run and, for each, an item of the same uid with the cost
\* and the size of the next item.
AliasItems ==
    RunItems("GeneralModelItem")
        \cup {GeneralModelItem(i.id, GeneralCost(i.id + 1), GeneralSize(i.id + 1)) :
                 i \in RunItems("GeneralModelItem")}

AliasInit ==
    /\ Init
    /\ item_model = "GeneralModelItem"

AliasNext ==
    /\ Len(history) < MaxAliasAccesses
    /\ \E item \in AliasItems : Access(item)

AliasSpec == AliasInit /\ [][AliasNext]_vars

(***************************************************************************)
(* The state machine of a cache with the Optimal policy: the policy is     *)
(* built with a trace of up to MaxOptLen unit-size items, and the cache is *)
(* accessed with the items of that trace, one by one.                      *)
(***************************************************************************)
OptTraces ==
    {From(v) : v \in UNION {[1..n -> RunItems("u32")] : n \in 0..MaxOptLen}}

OptInit ==
    /\ item_model = "u32"
    /\ capacity \in 1..MaxCapacity
    /\ \E t \in OptTraces : replacement_policy = NewOpt(t)
    /\ set = {}
    /\ stat = [hits |-> 0, misses |-> 0]
    /\ status = "ok"
    /\ history = <<>>
    /\ policy_before = replacement_policy
    /\ trail = <<>>
    /\ run_len = 0
    /\ tiebreak = NoTiebreak
    /\ NoTuple
    /\ NoTrace

OptNext ==
    /\ replacement_policy.future # <<>>
    /\ Access(Head(replacement_policy.future))

OptSpec == OptInit /\ [][OptNext]_vars

(***************************************************************************)
(* The state machine of a trace that is replayed and analysed: a trace of  *)
(* unit-size items is built from a vector, an empty Lru cache runs it      *)
(* (run_trace) and the trace is analysed under the paging model            *)
(* (stack_distances(true)), in either order.                               *)
(***************************************************************************)
DistanceInit ==
    /\ item_model = "u32"
    /\ capacity \in 1..MaxCapacity
    /\ replacement_policy = NewPolicy("Lru", [num |-> 1, den |-> 1])
    /\ set = {}
    /\ stat = [hits |-> 0, misses |-> 0]
    /\ status = "ok"
    /\ history = <<>>
    /\ policy_before = replacement_policy
    /\ trail = <<>>
    /\ run_len = 0
    /\ tiebreak = NoTiebreak
    /\ NoTuple
    /\ trace \in {From(v) : v \in TraceVectors(item_model)}
    /\ distances = <<>>
    /\ histogram = [freqs |-> <<>>, infinities |-> 0]
    /\ trace_call = [op |-> "new", paging_model |-> FALSE]
    /\ NoFrequencies

DistanceNext ==
    \/ history = <<>> /\ trace.inner # <<>> /\ RunTraceOf(trace)
    \/ StackDistances(TRUE)

DistanceSpec == DistanceInit /\ [][DistanceNext]_vars

(***************************************************************************)
(* The state machine of a Trace under the other analyses: a trace of up to *)
(* MaxScanLen items is built from a vector, and one of the functions is    *)
(* called on it.                                                           *)
(***************************************************************************)
ScanVectors == UNION {[1..n -> Items("u32")] : n \in 0..MaxScanLen}

AnalysisInit ==
    /\ NoCache
    /\ NoTuple
    /\ trace \in {From(v) : v \in ScanVectors}
    /\ distances = <<>>
    /\ histogram = [freqs |-> <<>>, infinities |-> 0]
    /\ trace_call = [op |-> "new", paging_model |-> FALSE]
    /\ NoFrequencies

\* A call of a function of the Trace with arguments arg that returned ret.
Analyse(op, arg, ret) ==
    /\ analysis.op = "none"
    /\ continuation.pc = "none"
    /\ analysis' = [op |-> op, arg |-> arg, ret |-> ret]
    /\ UNCHANGED <<cache_vars, stat_vars, trace, distances, histogram, trace_call,
                   frequencies, condition, entropy_value, continuation>>

\* The conditions of at most one item.
ShortConditions == {c \in Conditions("u32") : Len(c.items) <= 1}

\* The HashMaps of named conditions of the run: one name with any condition
\* and either flag, or two names with conditions of at most one item.
ConditionMaps ==
    LET entries(cs) == [condition : cs, use_stride : BOOLEAN]
    IN [{"first"} -> entries(Conditions("u32"))]
          \cup [{"first", "second"} -> entries(ShortConditions)]

\* trace.frequency_histogram_many(&conditions)
FrequencyHistogramMany(conditions) ==
    Analyse("frequency_histogram_many", conditions,
            frequency_histogram_many(trace, conditions))

\* trace.average_entropy(prefix)
AverageEntropy(prefix) == Analyse("average_entropy", prefix, average_entropy(trace, prefix))

\* trace.stride_entropy(prefix)
StrideEntropy(prefix) == Analyse("stride_entropy", prefix, stride_entropy(trace, prefix))

\* trace.num_items(length)
CountItems(length) == Analyse("num_items", length, num_items(trace, length))

\* trace.num_strides(length)
CountStrides(length) == Analyse("num_strides", length, num_strides(trace, length))

\* condition.check(&trace, index)
CheckCall(c, index) ==
    Analyse("check", [condition |-> c, index |-> index], CheckOutcome(c, trace, index))

AnalysisNext ==
    \/ \E conditions \in ConditionMaps : FrequencyHistogramMany(conditions)
    \/ \E prefix \in 0..MaxScanLen : AverageEntropy(prefix)
    \/ \E prefix \in 0..MaxScanLen : StrideEntropy(prefix)
    \/ \E length \in 0..MaxScanLen : CountItems(length)
    \/ \E length \in 0..MaxScanLen : CountStrides(length)
    \/ \E c \in Conditions("u32") : \E index \in 0..(Len(trace.inner) + 1) :
          CheckCall(c, index)

AnalysisSpec == AnalysisInit /\ [][AnalysisNext]_vars

(***************************************************************************)
(* The state machine of linear_function_continuation on such a trace: the  *)
(* call sets its locals, and every step is one pass of its while loop.     *)
(* The function runs alone and to its end, so a pass that can be taken is  *)
(* taken (weak fairness).  The guard of the pass caps the run length two   *)
(* beyond the longest trace.                                               *)
(***************************************************************************)
\* let mut probs = Vec::new(); let mut max_prefix = 0; let mut prefix = 1;
ContinuationStart ==
    /\ analysis.op = "none"
    /\ continuation.pc = "none"
    /\ continuation' = [pc |-> "loop", prefix |-> 1, max_prefix |-> 0, probs |-> <<>>]
    /\ UNCHANGED <<cache_vars, stat_vars, trace, distances, histogram, trace_call,
                   frequencies, condition, entropy_value, analysis>>

\* One pass of `while max_prefix == 0`: the stride histogram under the closure
\* (a panic of the closure ends the call), the sum of its values pushed to
\* probs, max_prefix set when the sum is 0, and prefix += 1.
ContinuationStep ==
    /\ continuation.pc = "loop"
    /\ continuation.max_prefix = 0
    /\ continuation.prefix <= MaxScanLen + 2
    /\ LET c == LinearRun(continuation.prefix)
           continued == ValuesSum(stride_histogram(trace, c))
       IN continuation' =
             IF \E i \in 0..(Len(trace.strides) - 1) : ~CheckOutcome(c, trace, i).ok
             THEN [continuation EXCEPT !.pc = "panicked"]
             ELSE [pc |-> IF continued = 0 THEN "done" ELSE "loop",
                   prefix |-> continuation.prefix + 1,
                   max_prefix |-> IF continued = 0 THEN continuation.prefix ELSE 0,
                   probs |-> Append(continuation.probs, continued)]
    /\ UNCHANGED <<cache_vars, stat_vars, trace, distances, histogram, trace_call,
                   frequencies, condition, entropy_value, analysis>>

ContinuationNext == ContinuationStart \/ ContinuationStep

ContinuationSpec ==
    AnalysisInit /\ [][ContinuationNext]_vars /\ WF_vars(ContinuationNext)

(***************************************************************************)
(* The state machine of a cache that records its accesses: a               *)
(* Cache<R, Trace<I>, I>, whose Stat is a Trace (Trace::default() at       *)
(* construction), accessed up to MaxRunTotal times with the items of the   *)
(* run.                                                                    *)
(***************************************************************************)
RecordInit ==
    /\ item_model \in {"u32", "GeneralModelItem"}
    /\ capacity \in 1..MaxCapacity
    /\ \E kind \in Policies : \E ci \in CreditIncreases(kind) :
          replacement_policy = NewPolicy(kind, ci)
    /\ set = {}
    /\ stat = Default
    /\ status = "ok"
    /\ history = <<>>
    /\ policy_before = replacement_policy
    /\ trail = <<>>
    /\ run_len = 0
    /\ tiebreak = NoTiebreak
    /\ NoTuple
    /\ NoTrace

RecordNext ==
    /\ Len(history) < MaxRunTotal
    /\ \E item \in RunItems(item_model) : Access(item)

RecordSpec == RecordInit /\ [][RecordNext]_vars

(***************************************************************************)
(* The state machines of the cache under one policy: the cache of Spec     *)
(* built with Lfu, with Landlord, and with Lru, Fifo or Mru over the       *)
(* unit-size items of the paging model.                                    *)
(***************************************************************************)
LfuInit == Init /\ replacement_policy.kind = "Lfu"

LfuSpec == LfuInit /\ [][Next]_vars

LandlordInit == Init /\ replacement_policy.kind = "Landlord"

LandlordSpec == LandlordInit /\ [][Next]_vars

PagingInit ==
    /\ Init
    /\ item_model = "u32"
    /\ replacement_policy.kind \in {"Lru", "Fifo", "Mru"}

PagingSpec == PagingInit /\ [][Next]_vars

(***************************************************************************)
(* What the claims speak of, read from the ghosts.  These definitions use  *)
(* the history of the accesses, never the state of the policy.             *)
(***************************************************************************)
\* A call of access has happened.
Called == history # <<>>

\* The item of the last call and the resident set before it.
LastItem == history[Len(history)].item

SetBefore == history[Len(history)].set

\* The last call needed an eviction: its item was not resident and did not fit.
NeedsEviction ==
    /\ \A i \in SetBefore : i.id # LastItem.id
    /\ SumSizes(SetBefore) + LastItem.size > capacity

\* The size the last call had to free.
RequiredSize == SumSizes(SetBefore) + LastItem.size - capacity

\* The policy call of the last call returned (the Stat hook was reached).
PolicyReturned == \E k \in 1..Len(trail) : trail[k].event = "stat"

\* The set the policy's replace returned in the last call.
Evicted == trail[1].evicted

\* The index of the last access to item r before the last call (0: none).
LastUse(r) ==
    LET uses == {k \in 1..(Len(history) - 1) : history[k].item.id = r.id}
    IN IF uses = {} THEN 0 ELSE CHOOSE k \in uses : \A j \in uses : j <= k

\* The index of the access that brought the resident r into the set: the last
\* access to r before the last call that found r not resident.
InsertedAt(r) ==
    LET misses == {k \in 1..(Len(history) - 1) :
                      /\ history[k].item.id = r.id
                      /\ \A i \in history[k].set : i.id # r.id}
    IN IF misses = {} THEN 0 ELSE CHOOSE k \in misses : \A j \in misses : j <= k

\* The number of accesses to r before the last call.
UseCount(r) == Cardinality({k \in 1..(Len(history) - 1) : history[k].item.id = r.id})

\* The ids accessed, in order.
AccessedIds == [k \in 1..Len(history) |-> history[k].item.id]

SetIds == {i.id : i \in set}

\* C1: for every deterministic policy, after every call of access the total
\* size of the resident set is at most the capacity.  (Stated for items that
\* fit the cache at all; the code violates it.)
C1_CapacityInvariant ==
    (replacement_policy.kind # "Rand" /\ Called /\ LastItem.size <= capacity)
        => SumSizes(set) <= capacity

\* C2: whenever access needs an eviction for an item no larger than the
\* capacity, the set replace returns frees enough room: the residents that
\* remain plus the accessed item fit the capacity; for every policy and also
\* when sizes differ.  (The code violates it.)
C2_ReplaceFreesEnough ==
    (Called /\ NeedsEviction /\ LastItem.size <= capacity /\ PolicyReturned)
        => SumSizes({i \in SetBefore : i \notin Evicted}) + LastItem.size <= capacity

\* C3: for every policy, the set replace returns is non-empty, holds only
\* members of the resident set and does not hold the accessed item.  (Stated
\* for items that fit the cache at all; the code violates it.)
C3_ReplaceReturnsResidents ==
    (Called /\ NeedsEviction /\ LastItem.size <= capacity /\ PolicyReturned)
        => /\ Evicted # {}
           /\ Evicted \subseteq SetBefore
           /\ \A e \in Evicted : e.id # LastItem.id

\* The least recently used residents, oldest first, until the freed size is at
\* least the required size: a resident is among them exactly when the residents
\* used before it do not free enough.
LeastRecentlyUsedPrefix ==
    {e \in SetBefore :
        SumSizes({r \in SetBefore : LastUse(r) < LastUse(e)}) < RequiredSize}

\* The ids accessed after the last access to the id of history[k].
AccessedSince(k) ==
    {history[j].item.id : j \in {x \in (k + 1)..Len(history) :
                                    history[x].item.id # history[k].item.id}}

\* The (up to capacity) most recently accessed distinct ids.
MostRecentIds ==
    {history[k].item.id : k \in {x \in 1..Len(history) :
        /\ \A j \in (x + 1)..Len(history) : history[j].item.id # history[x].item.id
        /\ Cardinality(AccessedSince(x)) < capacity}}

\* C4: with Lru every evicting access evicts the least recently used residents,
\* oldest first, until the freed size is at least the required size; with
\* unit-size items the resident set is the (up to capacity) most recently
\* accessed distinct items, [0,1,2,0,3] at capacity 3 leaving {0,2,3}.  (The
\* code violates the first part when sizes differ.)
C4_LruEvictsUntilEnough ==
    /\ (replacement_policy.kind = "Lru" /\ Called /\ NeedsEviction
           /\ LastItem.size <= capacity /\ PolicyReturned)
          => Evicted = LeastRecentlyUsedPrefix
    /\ (replacement_policy.kind = "Lru" /\ item_model = "u32" /\ status = "ok")
          => SetIds = MostRecentIds
    /\ (replacement_policy.kind = "Lru" /\ item_model = "u32" /\ capacity = 3
           /\ AccessedIds = <<0, 1, 2, 0, 3>>)
          => SetIds = {0, 2, 3}

\* C5: with Fifo every evicting access evicts the resident that was inserted
\* earliest, and an access to a resident item leaves the queue as it is;
\* [0,1,2,0,3] at capacity 3 leaves {1,2,3}.
C5_FifoEvictsEarliestInserted ==
    /\ (replacement_policy.kind = "Fifo" /\ Called /\ NeedsEviction
           /\ SetBefore # {} /\ PolicyReturned)
          => \E e \in SetBefore :
                /\ Evicted = {e}
                /\ \A r \in SetBefore : InsertedAt(e) <= InsertedAt(r)
    /\ (replacement_policy.kind = "Fifo" /\ Called /\ LastItem \in SetBefore)
          => replacement_policy.stack = policy_before.stack
    /\ (replacement_policy.kind = "Fifo" /\ item_model = "u32" /\ capacity = 3
           /\ AccessedIds = <<0, 1, 2, 0, 3>>)
          => (status = "ok" /\ SetIds = {1, 2, 3})

\* C5's case: a Fifo eviction of an item that was used again after a resident
\* that stays was last used (so Lru would have evicted another item).
C5_Witness ==
    /\ replacement_policy.kind = "Fifo" /\ status = "ok"
    /\ Called /\ NeedsEviction /\ PolicyReturned
    /\ \E e \in Evicted : \E r \in SetBefore \ Evicted : LastUse(r) < LastUse(e)

\* C6: with Mru every evicting access evicts the most recently used resident,
\* the entry just below the newly pushed top of the stack; [0,1,2,3] at
\* capacity 3 leaves {0,1,3}.
C6_MruEvictsMostRecentlyUsed ==
    /\ (replacement_policy.kind = "Mru" /\ Called /\ NeedsEviction /\ PolicyReturned)
          => \E e \in SetBefore :
                /\ Evicted = {e}
                /\ e.id # LastItem.id
                /\ \A r \in SetBefore : LastUse(r) <= LastUse(e)
                /\ e = policy_before.stack[Len(policy_before.stack)]
                /\ replacement_policy.stack
                      = Append(SubSeq(policy_before.stack, 1,
                                      Len(policy_before.stack) - 1), LastItem)
    /\ (replacement_policy.kind = "Mru" /\ item_model = "u32" /\ capacity = 3
           /\ AccessedIds = <<0, 1, 2, 3>>)
          => (status = "ok" /\ SetIds = {0, 1, 3})

\* C6's case: an Mru eviction from a set of several residents.
C6_Witness ==
    /\ replacement_policy.kind = "Mru" /\ status = "ok"
    /\ Called /\ NeedsEviction /\ PolicyReturned
    /\ Cardinality(SetBefore) >= 2
    /\ \E e \in Evicted : \E r \in SetBefore : LastUse(r) < LastUse(e)

\* C7: with Lfu every evicting access evicts one item that is resident, is not
\* the accessed item and has the least access count among the residents, the
\* least recently used of those with that count; [0,0,1,2,2,3] at capacity 3
\* leaves {0,2,3}.  (The code violates it.)
C7_LfuEvictsLeastFrequentResident ==
    /\ (replacement_policy.kind = "Lfu" /\ Called /\ NeedsEviction
           /\ LastItem.size <= capacity /\ PolicyReturned)
          => \E e \in SetBefore :
                /\ Evicted = {e}
                /\ e.id # LastItem.id
                /\ \A r \in SetBefore : UseCount(e) <= UseCount(r)
                /\ \A r \in SetBefore :
                      UseCount(r) = UseCount(e) => LastUse(e) <= LastUse(r)
    /\ (replacement_policy.kind = "Lfu" /\ item_model = "u32" /\ capacity = 3
           /\ AccessedIds = <<0, 0, 1, 2, 2, 3>>)
          => (status = "ok" /\ SetIds = {0, 2, 3})

\* A resident of the set before the last call with the least credit / size,
\* by the credits the policy held before the call.
LeastCreditPerSize ==
    CHOOSE m \in SetBefore :
        \A r \in SetBefore :
            policy_before.credit[m.id] * r.size <= policy_before.credit[r.id] * m.size

\* C8: with Landlord every evicted item is a resident whose credit is zero
\* after every resident's credit was decreased by delta * size, where delta is
\* the least current credit / size over the residents; a resident whose credit
\* has not reached zero is not evicted.  (credit' = credit - delta * size is
\* stated multiplied by the size of the item that gives delta.)
C8_LandlordEvictsZeroCredit ==
    (replacement_policy.kind = "Landlord" /\ Called /\ NeedsEviction /\ PolicyReturned)
        => /\ Evicted # {}
           /\ Evicted \subseteq SetBefore
           /\ \A r \in SetBefore :
                 replacement_policy.credit[r.id] * LeastCreditPerSize.size
                    = policy_before.credit[r.id] * LeastCreditPerSize.size
                      - policy_before.credit[LeastCreditPerSize.id] * r.size
           /\ \A e \in Evicted : replacement_policy.credit[e.id] = 0
           /\ \A r \in SetBefore :
                 replacement_policy.credit[r.id] # 0 => r \notin Evicted

\* C8's case: Landlord evicts an item whose credit had decayed below its cost
\* but not to zero before the call, while another resident keeps some credit.
C8_Witness ==
    /\ replacement_policy.kind = "Landlord" /\ status = "ok"
    /\ Called /\ NeedsEviction /\ PolicyReturned
    /\ \E e \in Evicted :
          /\ policy_before.credit[e.id] > 0
          /\ policy_before.credit[e.id] < e.cost * CreditScale
    /\ \E r \in SetBefore \ Evicted : replacement_policy.credit[r.id] > 0

\* C9: in every call of access that reaches the Stat hook, the policy call
\* (update_state, or replace with its one update_state) comes first, while the
\* set is still the set before the call; the Stat hook and every change of the
\* set come after it and see the policy updated exactly once.  For Lfu the
\* count of the accessed item is then the number of its accesses.  (Rand keeps
\* no bookkeeping: its update_state is empty.)
C9_PolicyUpdatedOnceBeforeStat ==
    (Called /\ PolicyReturned)
        => /\ Len(trail) >= 2
           /\ trail[1].event = (IF NeedsEviction THEN "replace" ELSE "update_state")
           /\ trail[1].set = SetBefore
           /\ trail[2].event = "stat"
           /\ trail[2].set = SetBefore
           /\ \A k \in 3..Len(trail) : trail[k].event \in {"remove", "insert", "assert"}
           /\ replacement_policy.kind # "Rand"
                 => /\ \A k \in 1..Len(trail) :
                          trail[k].updates = policy_before.updates + 1
                    /\ replacement_policy.updates = policy_before.updates + 1
                    /\ replacement_policy.updates = Len(history)
           /\ replacement_policy.kind = "Lfu"
                 => replacement_policy.counts[LastItem.id] = UseCount(LastItem) + 1
           /\ replacement_policy.kind \in {"Mru", "Lfu", "Landlord"}
                 => replacement_policy.stack[Len(replacement_policy.stack)] = LastItem

\* C9's case: an evicting call with a policy that keeps state reached Stat.
C9_Witness ==
    /\ replacement_policy.kind = "Landlord" /\ status = "ok"
    /\ Called /\ NeedsEviction /\ PolicyReturned
    /\ stat.misses >= 3

\* C10: when the accessed item is resident or fits the free capacity, access
\* evicts nothing: the set afterwards is the set before plus the item, and on
\* a hit the set is unchanged.
C10_NoEvictionWhenResidentOrFits ==
    (Called /\ ~NeedsEviction)
        => /\ status = "ok"
           /\ set = SetBefore \cup {LastItem}
           /\ (LastItem \in SetBefore => set = SetBefore)
           /\ \A k \in 1..Len(trail) :
                 trail[k].event # "remove" /\ trail[k].evicted = {}

\* C10's case: a miss whose item exactly fills the free capacity of a cache
\* that already holds items.
C10_Witness ==
    /\ Called /\ ~NeedsEviction /\ status = "ok"
    /\ SetBefore # {} /\ LastItem \notin SetBefore
    /\ SumSizes(SetBefore) + LastItem.size = capacity
    /\ set = SetBefore \cup {LastItem}

\* The number of the first n accesses that found their item resident.
HitsIn(n) == Cardinality({k \in 1..n : \E i \in history[k].set : i.id = history[k].item.id})

\* The events of the Stat hook in the last call, and those that change the set.
StatEvents == {k \in 1..Len(trail) : trail[k].event = "stat"}

SetChanges == {k \in 1..Len(trail) : trail[k].event \in {"remove", "insert"}}

\* The items the last call took out of the set: the residents before the call
\* that the removal loop removed.
RemovedByAccess ==
    IF \E k \in 1..Len(trail) : trail[k].event = "remove"
    THEN LET k == CHOOSE x \in 1..Len(trail) : trail[x].event = "remove"
         IN {i \in SetBefore : i \notin trail[k].set}
    ELSE {}

\* C11: after every call of access that returns, the accessed item is in the
\* resident set, whatever the policy and whatever was evicted.
C11_AccessedItemResident ==
    (Called /\ status = "ok") => Contains(set, LastItem)

\* C11's case: an access that evicted a resident and returned with its item in
\* the set.
C11_Witness ==
    /\ Called /\ status = "ok" /\ NeedsEviction
    /\ RemovedByAccess # {}
    /\ LastItem \in set /\ LastItem \notin SetBefore

\* C12: no call of access returns with the resident set over the capacity: when
\* the set after the insertion exceeds the capacity (the policy freed too
\* little, or the cache was empty and the item is larger than the capacity)
\* the call ends in a panic.
C12_OverCapacityPanics ==
    /\ status = "ok" => SumSizes(set) <= capacity
    /\ (Called /\ SumSizes(set) > capacity) => status = "panicked"
    /\ (Called /\ NeedsEviction /\ SetBefore = {}) => status = "panicked"

\* C12's case: the policy freed too little from a non-empty set, the item was
\* inserted, and the assertion stopped the call.
C12_Witness ==
    /\ Called /\ NeedsEviction /\ SetBefore # {} /\ LastItem.size <= capacity
    /\ trail[Len(trail)].event = "assert"
    /\ SumSizes(set) > capacity
    /\ status = "panicked"

\* C13: in every call of access whose policy call returns, the Stat hook is
\* invoked exactly once, before the item is inserted and before any evicted
\* item is removed, with the resident set before the call, the accessed item
\* and exactly the set of items this call evicts (empty when it evicts none).
\* (Stated for items that fit the cache at all; the code violates the last
\* part.)
C13_StatHookOnceWithEvicted ==
    (Called /\ PolicyReturned /\ LastItem.size <= capacity)
        => /\ Cardinality(StatEvents) = 1
           /\ \A k \in StatEvents :
                 /\ \A j \in SetChanges : k < j
                 /\ trail[k].set = SetBefore
                 /\ trail[k].next = LastItem
                 /\ trail[k].evicted = RemovedByAccess
                 /\ ~NeedsEviction => trail[k].evicted = {}

\* C14: after any sequence of accesses that returned, HitCount is the number
\* of accesses whose item was resident just before the access, MissCount the
\* number of the others, and hits + misses is the number of accesses.
C14_HitsPlusMisses ==
    (status = "ok")
        => /\ stat.hits = HitsIn(Len(history))
           /\ stat.misses = Len(history) - HitsIn(Len(history))
           /\ stat.hits + stat.misses = Len(history)

\* C14's case: a run with hits and misses, some of the misses evicting.
C14_Witness ==
    /\ status = "ok" /\ Len(history) >= 4
    /\ stat.hits >= 2 /\ stat.misses >= 2
    /\ NeedsEviction

\* The cache just before the last call of access, as access takes it.  The
\* Stat before the call is read from the history.
BeforeLast ==
    [set |-> SetBefore, replacement_policy |-> policy_before,
     stat |-> [hits |-> HitsIn(Len(history) - 1),
               misses |-> Len(history) - 1 - HitsIn(Len(history) - 1)],
     to_evict |-> {}, status |-> "ok", trail |-> <<>>]

\* What a replay shows of a cache: the resident set, the Stat values and
\* whether the call returned.
Shown(m) == [set |-> m.set, stat |-> m.stat, status |-> m.status]

\* C17: with a deterministic policy (Lru, Fifo, Mru, Lfu, Landlord) a call of
\* access has one outcome, whatever the iteration order of the sets and maps:
\* replaying a trace on an identically configured fresh cache gives the same
\* resident set and the same Stat values after every access.
C17_DeterministicReplay ==
    (Called /\ replacement_policy.kind # "Rand")
        => /\ {Shown(m) : m \in access(BeforeLast, capacity, LastItem)}
                 = {[set |-> set, stat |-> stat, status |-> status]}
           /\ NeedsEviction
                 => Cardinality(Replace(policy_before, SetBefore, capacity, LastItem)) = 1

\* C17's case: a Landlord eviction where several residents tie for the least
\* credit / size, so that the iteration order of the set decides which of them
\* the loop of replace ends with.
C17_Witness ==
    /\ replacement_policy.kind = "Landlord" /\ status = "ok"
    /\ Called /\ NeedsEviction /\ PolicyReturned
    /\ \A i \in SetBefore : i.id \in DOMAIN policy_before.credit
    /\ Cardinality(LandlordMin(policy_before.credit, SetBefore)) >= 2

\* C15: every member of a tuple of Stats observes every event: after any
\* sequence of events the value of each member is the value of a Stat of its
\* type that observed the same events alone, whatever its position in the
\* tuple.
C15_TupleMembersAsAlone ==
    \A i \in 1..Len(tuple) : tuple[i].value = alone[tuple[i].type]

\* C15's case: the tuple (MissCount, HitCount), the reverse of the usual order,
\* after events with a hit and two misses.
C15_Witness ==
    /\ Len(tuple) = 2
    /\ tuple[1].type = "MissCount" /\ tuple[2].type = "HitCount"
    /\ tuple[2].value >= 1 /\ tuple[1].value >= 2

\* The cache after construction, as access takes it.
Fresh ==
    [set |-> {},
     replacement_policy |-> NewPolicy(replacement_policy.kind,
                                      replacement_policy.credit_increase),
     stat |-> [hits |-> 0, misses |-> 0],
     to_evict |-> {}, status |-> "ok", trail |-> <<>>]

RECURSIVE AccessEach(_, _)
\* The states reached from m0 by calling access on each of the items once, in
\* their order: those of the items but the last, then the call on the last.
AccessEach(m0, items) ==
    IF items = <<>> THEN {m0}
    ELSE UNION {access([m EXCEPT !.trail = <<>>, !.to_evict = {}], capacity,
                       items[Len(items)]) :
                   m \in {x \in AccessEach(m0, SubSeq(items, 1, Len(items) - 1)) :
                             x.status = "ok"}}

\* The items of all the traces run so far, in order.
RunItemsSoFar == [k \in 1..Len(history) |-> history[k].item]

\* C16: run_trace leaves the cache (resident set, policy state, Stat) in a
\* state reached by calling access on each item of the trace once, in trace
\* order: after any calls of run_trace on a fresh cache, the cache is in a
\* state that the calls of access on the items of the traces reach.
C16_RunTraceIsAccessEach ==
    \E m \in AccessEach(Fresh, RunItemsSoFar) :
        /\ m.set = set
        /\ m.replacement_policy = replacement_policy
        /\ m.stat = stat
        /\ m.status = status

\* C16's case: run_trace with a trace of several items on a cache that was
\* used before, one of its accesses a hit and the last one evicting.
C16_Witness ==
    /\ run_len >= 2 /\ Len(history) > run_len
    /\ status = "ok" /\ NeedsEviction /\ PolicyReturned
    /\ stat.hits >= 1
    /\ history[Len(history) - 1].item # LastItem

\* The trace has been analysed: distances holds its stack distances.
Analysed == trace_call.op \in {"stack_distances", "histogram"}

\* The position of the access to the item of position i before i (0: none).
PreviousAccess(i) ==
    LET before == {j \in 1..(i - 1) : trace.inner[j].id = trace.inner[i].id}
    IN IF before = {} THEN 0 ELSE CHOOSE j \in before : \A k \in before : k <= j

\* The distinct items accessed strictly between positions j and i, one per id.
Between(j, i) ==
    {trace.inner[k] : k \in {x \in (j + 1)..(i - 1) :
        \A y \in (j + 1)..(x - 1) : trace.inner[y].id # trace.inner[x].id}}

Infinite == {i \in 1..Len(distances) : ~distances[i].some}

FiniteAt(d) == {i \in 1..Len(distances) : distances[i] = Some(d)}

RECURSIVE SeqSum(_)
\* The sum of a vector of numbers.
SeqSum(v) == IF v = <<>> THEN 0 ELSE Head(v) + SeqSum(Tail(v))

\* C19: histogram gives (freqs, infinities): infinities is the number of None
\* entries, freqs[d] the number of positions of distance Some(d), freqs is as
\* long as the largest finite distance + 1 (empty when none is finite), and
\* sum(freqs) + infinities is the length of the trace.  (freqs[d] of the
\* source is freqs[d + 1] here.)
C19_Histogram ==
    trace_call.op = "histogram"
        => /\ histogram.infinities = Cardinality(Infinite)
           /\ \A d \in 0..(Len(histogram.freqs) - 1) :
                 histogram.freqs[d + 1] = Cardinality(FiniteAt(d))
           /\ \A i \in 1..Len(distances) :
                 distances[i].some => distances[i].value < Len(histogram.freqs)
           /\ Len(histogram.freqs) > 0 => FiniteAt(Len(histogram.freqs) - 1) # {}
           /\ Infinite = 1..Len(distances) => histogram.freqs = <<>>
           /\ SeqSum(histogram.freqs) + histogram.infinities = Len(trace.inner)

\* C19's case: a histogram with a gap: no position of distance 0 or 1, one of
\* distance 2.
C19_Witness ==
    /\ trace_call.op = "histogram"
    /\ Len(histogram.freqs) = 3
    /\ histogram.freqs[1] = 0 /\ histogram.freqs[3] >= 1
    /\ histogram.infinities >= 2

\* C20: in every reachable state of a Trace, built from a collection or grown
\* by the appends of Stat::update, the strides are derived from the items:
\* strides has max(len - 1, 0) entries and strides[i] is the id of the next
\* item minus the id of the i-th.  (The code violates it.)
C20_StridesDerived ==
    /\ Len(trace.strides) = (IF Len(trace.inner) = 0 THEN 0 ELSE Len(trace.inner) - 1)
    /\ \A i \in 1..(Len(trace.inner) - 1) :
          /\ i <= Len(trace.strides)
          /\ trace.strides[i] = trace.inner[i + 1].id - trace.inner[i].id

\* C25: for every reachable Landlord state and every accessed item no larger
\* than the capacity, replace returns (no panic, no endless loop) and the set
\* it returns frees enough room, also when one round of credit decay does not
\* free enough.  (The code violates it.)
C25_LandlordReplaceReturns ==
    (replacement_policy.kind = "Landlord" /\ Called /\ NeedsEviction
        /\ LastItem.size <= capacity)
        => /\ PolicyReturned
           /\ SumSizes({i \in SetBefore : i \notin Evicted}) + LastItem.size <= capacity

\* The last call found its item resident.
LastWasHit == \E i \in SetBefore : i.id = LastItem.id

\* C28: in Landlord the credit of the accessed item is its cost after every
\* admission (the first, or one after an eviction); after a hit it is
\* credit + (cost - credit) * credit_increase, which is the full cost when
\* credit_increase is 1.  (Credits are in units of 1 / CreditScale; the hit
\* formula is stated multiplied by the denominator of credit_increase.)
C28_LandlordCredit ==
    (replacement_policy.kind = "Landlord" /\ Called /\ PolicyReturned)
        => LET cost == LastItem.cost * CreditScale
               ci == replacement_policy.credit_increase
               after == replacement_policy.credit[LastItem.id]
           IN IF LastWasHit
              THEN LET before == policy_before.credit[LastItem.id]
                   IN /\ after * ci.den = before * ci.den + (cost - before) * ci.num
                      /\ ci.num = ci.den => after = cost
              ELSE after = cost

\* C28's case: a hit, with credit_increase 1/2, on an item whose credit had
\* decayed below its cost, after an item was admitted again whose credit of
\* zero from its eviction was still on record.
C28_Witness ==
    /\ replacement_policy.kind = "Landlord" /\ status = "ok"
    /\ replacement_policy.credit_increase = [num |-> 1, den |-> 2]
    /\ Called /\ LastWasHit
    /\ policy_before.credit[LastItem.id] < LastItem.cost * CreditScale
    /\ replacement_policy.credit[LastItem.id] > policy_before.credit[LastItem.id]
    /\ replacement_policy.credit[LastItem.id] < LastItem.cost * CreditScale
    /\ \E k \in 2..(Len(history) - 1) :
          /\ \A i \in history[k].set : i.id # history[k].item.id
          /\ \E j \in 1..(k - 1) : history[j].item.id = history[k].item.id

\* The items on the policy's stack or queue.
StackItems == {replacement_policy.stack[k] : k \in 1..Len(replacement_policy.stack)}

\* C30: with Lru, Mru and Fifo and unit-size items, after every access the
\* stack (queue) of the policy holds exactly the items of the resident set,
\* each once.
C30_StackIsResidentSet ==
    (replacement_policy.kind \in {"Lru", "Mru", "Fifo"} /\ item_model = "u32")
        => /\ status = "ok"
           /\ StackItems = set
           /\ Len(replacement_policy.stack) = Cardinality(set)

\* C30's case: a cache of several residents after an eviction that followed a
\* hit.
C30_Witness ==
    /\ replacement_policy.kind \in {"Lru", "Mru", "Fifo"} /\ item_model = "u32"
    /\ Called /\ NeedsEviction /\ status = "ok"
    /\ Cardinality(set) >= 2
    /\ stat.hits >= 1
    /\ StackItems = set

\* What the policy call of the last access did, in order.
PolicyOrder == replacement_policy.order

\* C26: in every evicting call whose replace returns, whatever the policy,
\* replace does the update_state bookkeeping for the accessed item first and
\* only then selects the items to evict.  (Stated for the policies that keep
\* bookkeeping: the update_state of Rand is empty.  The code violates it.)
C26_ReplaceUpdatesFirst ==
    (replacement_policy.kind # "Rand" /\ Called /\ NeedsEviction /\ PolicyReturned)
        => /\ Len(PolicyOrder) >= 2
           /\ PolicyOrder[1] = "update_state"
           /\ \A k \in 2..Len(PolicyOrder) : PolicyOrder[k] = "select"

\* The candidates of the last tiebreak that are on the stack before e.
CandidatesBefore(e) ==
    {c \in tiebreak.from :
        Position(replacement_policy.stack, c) < Position(replacement_policy.stack, e)}

HitPositions ==
    {i \in 1..Len(history) : \E r \in history[i].set : r.id = history[i].item.id}

NearPositions ==
    {i \in 1..Len(distances) : distances[i].some /\ distances[i].value < capacity}

\* C29: under the paging model, when an empty Lru cache of capacity C >= 1 has
\* run a trace and the trace has been analysed, access i was a hit exactly when
\* the stack distance of position i is Some(d) with d < C; so the hit count of
\* the cache is the number of positions of finite distance below C.
C29_LruHitsAreNearDistances ==
    (history # <<>> /\ trace_call.op = "stack_distances" /\ trace_call.paging_model)
        => /\ status = "ok"
           /\ Len(history) = Len(trace.inner)
           /\ Len(distances) = Len(trace.inner)
           /\ \A i \in 1..Len(history) : history[i].item = trace.inner[i]
           /\ HitPositions = NearPositions
           /\ stat.hits = Cardinality(NearPositions)
           /\ stat.misses = Len(trace.inner) - Cardinality(NearPositions)

\* C29's case: a run with a hit, with a miss on an item seen before whose stack
\* distance is finite but not below the capacity, and with an eviction.
C29_Witness ==
    /\ history # <<>> /\ trace_call.op = "stack_distances" /\ status = "ok"
    /\ HitPositions # {}
    /\ \E i \in 1..Len(distances) :
          /\ distances[i].some /\ distances[i].value >= capacity
          /\ i \notin HitPositions
    /\ \E i \in 1..Len(distances) : distances[i].some /\ distances[i].value >= 1
    /\ Cardinality(set) >= 2

\* C22: items are equal exactly when their ids are equal, whatever their size
\* and cost, so the cache decides residency by the id alone: no two residents
\* share an id, and an access to an item whose id is that of a resident is a
\* hit that leaves the resident set as it was, evicts nothing and is counted
\* as a hit, also when the accessed item differs from the resident in size or
\* cost.
C22_ResidencyById ==
    /\ \A a \in set : \A b \in set : a.id = b.id => a = b
    /\ (Called /\ LastWasHit)
          => /\ status = "ok"
             /\ set = SetBefore
             /\ \A k \in 1..Len(trail) :
                   trail[k].event # "remove" /\ trail[k].evicted = {}
    /\ (Called /\ status = "ok") => stat.hits = HitsIn(Len(history))

\* C22's case: an access to an item with the id of a resident but another
\* size, which would not fit the cache next to the residents.
C22_Witness ==
    /\ Called /\ LastWasHit /\ status = "ok"
    /\ LastItem \notin SetBefore
    /\ \E r \in SetBefore : r.id = LastItem.id /\ r.size # LastItem.size
    /\ SumSizes(SetBefore) + LastItem.size > capacity
    /\ set = SetBefore

\* The indices (of the source, from 0) of the items of the trace, or of its
\* strides, that the last histogram call had to count under key.
CountedItems(key) ==
    {i \in 0..(Len(trace.inner) - 1) :
        trace.inner[i + 1].id = key /\ Check(condition, trace, i)}

CountedStrides(key) ==
    {i \in 0..(Len(trace.strides) - 1) :
        trace.strides[i + 1] = key /\ Check(condition, trace, i)}

RECURSIVE MapSum(_)
\* The sum of the values of a map.
MapSum(f) ==
    IF DOMAIN f = {} THEN 0
    ELSE LET k == CHOOSE x \in DOMAIN f : TRUE
         IN f[k] + MapSum([x \in DOMAIN f \ {k} |-> f[x]])

\* C21: frequency_histogram(C) maps each item to the number of positions i
\* that hold the item and for which C.check(trace, i) is true, and has no
\* entry for an item counted zero times; stride_histogram(C) does the same
\* over the strides; with NoCondition the counts of the items sum to the
\* length of the trace (those of the strides to the number of strides).
C21_FrequencyHistogram ==
    /\ trace_call.op = "frequency_histogram"
          => /\ \A key \in DOMAIN frequencies :
                   frequencies[key] = Cardinality(CountedItems(key))
                      /\ frequencies[key] > 0
             /\ \A i \in 1..Len(trace.inner) :
                   CountedItems(trace.inner[i].id) # {}
                      => trace.inner[i].id \in DOMAIN frequencies
             /\ condition = NoCondition => MapSum(frequencies) = Len(trace.inner)
    /\ trace_call.op = "stride_histogram"
          => /\ \A key \in DOMAIN frequencies :
                   frequencies[key] = Cardinality(CountedStrides(key))
                      /\ frequencies[key] > 0
             /\ \A i \in 1..Len(trace.strides) :
                   CountedStrides(trace.strides[i]) # {}
                      => trace.strides[i] \in DOMAIN frequencies
             /\ condition = NoCondition => MapSum(frequencies) = Len(trace.strides)

\* C21's case: a frequency histogram under LastNItems of two items of a trace
\* that holds an item the condition never lets count and an item counted at
\* one of its two positions only.
C21_Witness ==
    /\ trace_call.op = "frequency_histogram"
    /\ condition.kind = "LastNItems" /\ Len(condition.items) = 2
    /\ frequencies # EmptyMap
    /\ \E i \in 1..Len(trace.inner) : trace.inner[i].id \notin DOMAIN frequencies
    /\ \E i \in 1..Len(trace.inner) : \E j \in 1..Len(trace.inner) :
          /\ i # j /\ trace.inner[i].id = trace.inner[j].id
          /\ trace.inner[i].id \in DOMAIN frequencies
          /\ frequencies[trace.inner[i].id] = 1

\* The histogram is uniform over 2^e buckets.
UniformOver(e) ==
    /\ Cardinality(DOMAIN frequencies) = 2 ^ e
    /\ \A a \in DOMAIN frequencies : \A b \in DOMAIN frequencies :
          frequencies[a] = frequencies[b]

\* C24: the entropy of a histogram is -sum p * log2(p) over its buckets, p
\* being count / total: 0.0 for a histogram of a single symbol and 1.0 for a
\* uniform one of two symbols, such as {A:3, B:3} (exactly, so within 1e-4);
\* in general e for a uniform histogram of 2^e symbols, and sum p * e(p) when
\* every p is 1 / 2^e(p), which is 1.75 for the counts 4, 2, 1, 1.
C24_Entropy ==
    trace_call.op = "entropy"
        => /\ UniformOver(0) => (entropy_value.dyadic /\ entropy_value.num = 0)
           /\ UniformOver(1)
                 => (entropy_value.dyadic /\ entropy_value.num = entropy_value.den)
           /\ \A e \in 0..2 :
                 UniformOver(e)
                    => (entropy_value.dyadic
                          /\ entropy_value.num = e * entropy_value.den)
           /\ entropy_value.dyadic
                 => /\ entropy_value.num >= 0
                    /\ entropy_value.num
                          = MapSum([k \in DOMAIN frequencies |->
                                       frequencies[k]
                                          * (CHOOSE e \in 0..MapSum(frequencies) :
                                                2 ^ e * frequencies[k]
                                                   = MapSum(frequencies))])
                    /\ frequencies # EmptyMap
                          => entropy_value.den = MapSum(frequencies)
           /\ (/\ Cardinality(DOMAIN frequencies) = 4
               /\ \E a \in DOMAIN frequencies : frequencies[a] = 4
               /\ \E b \in DOMAIN frequencies : frequencies[b] = 2
               /\ MapSum(frequencies) = 8)
                 => (entropy_value.dyadic
                       /\ 4 * entropy_value.num = 7 * entropy_value.den)

\* C24's case: the entropy of the histogram {0:3, 1:3} of the items of a
\* trace.
C24_Witness ==
    /\ trace_call.op = "entropy"
    /\ frequencies = [k \in {0, 1} |-> 3]
    /\ entropy_value = [dyadic |-> TRUE, num |-> 6, den |-> 6]

\* The states in which a fresh cache with the policy kind, of the capacity of
\* the run, ends after the accesses made so far without a panic.
Replayed(kind) ==
    {m \in AccessEach([set |-> {},
                       replacement_policy |-> NewPolicy(kind, [num |-> 1, den |-> 1]),
                       stat |-> [hits |-> 0, misses |-> 0],
                       to_evict |-> {}, status |-> "ok", trail |-> <<>>],
                      RunItemsSoFar) : m.status = "ok"}

\* C23: over the same trace of unit-size items and the same capacity, the
\* Optimal policy never has more misses than Lru, Fifo or Lfu: after every
\* access of the run, the miss count of the cache with Optimal is at most that
\* of a cache with Lru, Fifo or Lfu that has run the same accesses.
C23_OptimalNeverWorse ==
    (replacement_policy.kind = "Opt" /\ item_model = "u32")
        => /\ status = "ok"
           /\ stat.hits + stat.misses = Len(history)
           /\ \A kind \in {"Lru", "Fifo", "Lfu"} :
                 \A m \in Replayed(kind) : stat.misses <= m.stat.misses

\* C23's case: a run with evictions after which Optimal has fewer misses than
\* Lru and than Fifo, the trace of its policy used up.
C23_Witness ==
    /\ replacement_policy.kind = "Opt" /\ status = "ok"
    /\ replacement_policy.future = <<>>
    /\ Called /\ stat.misses > capacity /\ stat.hits >= 1
    /\ \A m \in Replayed("Lru") : stat.misses < m.stat.misses
    /\ \A m \in Replayed("Fifo") : stat.misses < m.stat.misses
    /\ Replayed("Lru") # {} /\ Replayed("Lfu") # {}

(***************************************************************************)
(* C31.  A Trace as the cache's Stat.                                      *)
(***************************************************************************)
\* The items of the calls of access so far, in the order of the calls.
AccessedItems == [k \in 1..Len(history) |-> history[k].item]

\* C31: when a Trace is the cache's Stat, its inner vector is the sequence of
\* the accessed items in the order of the accesses, one entry per access, for
\* hits and misses alike.  (A call that panics may end before its update of
\* the Stat: the vector then lacks that last call only.)
C31_TraceRecordsAccesses ==
    LET n == Len(stat.inner)
    IN /\ status = "ok" => n = Len(history)
       /\ n \in {Len(history), Len(history) - 1}
       /\ \A k \in 1..n : stat.inner[k] = AccessedItems[k]
       /\ stat.strides = <<>>

\* C31 witness: three recorded accesses, among them a hit and a miss that
\* evicted.
C31_Witness ==
    /\ status = "ok"
    /\ Len(stat.inner) = 3
    /\ \E k \in 1..3 : Contains(history[k].set, history[k].item)
    /\ \E k \in 1..3 : /\ ~Contains(history[k].set, history[k].item)
                       /\ history[k].set # {}
                       /\ ~(history[k].set \subseteq
                              (IF k = 3 THEN set ELSE history[k + 1].set))

(***************************************************************************)
(* C32.  frequency_histogram_many against the single-condition functions.  *)
(***************************************************************************)
\* The histogram the call of frequency_histogram_many returned under a name:
\* the entry of the first map for an item histogram, of the second for a
\* stride histogram; none when the map has no entry of that name.
ManyReturned(name) ==
    LET m == IF analysis.arg[name].use_stride
             THEN analysis.ret.strides ELSE analysis.ret.items
    IN IF name \in DOMAIN m THEN {m[name]} ELSE {}

\* The histogram of the single-condition function for the entry of a name.
SingleReturned(name) ==
    LET e == analysis.arg[name]
    IN IF e.use_stride THEN stride_histogram(trace, e.condition)
       ELSE frequency_histogram(trace, e.condition)

\* C32: frequency_histogram_many returns, for every named condition of its
\* input, the histogram the single-condition function returns for it
\* (frequency_histogram for flag false, stride_histogram for flag true), also
\* for a condition no position satisfies.
C32_ManyAsSingle ==
    analysis.op = "frequency_histogram_many"
        => \A name \in DOMAIN analysis.arg : ManyReturned(name) = {SingleReturned(name)}

(***************************************************************************)
(* C33.  The weights of average_entropy and stride_entropy.                *)
(***************************************************************************)
\* The sum of the numerators of the weights of the last call.
WeightsSum == ValuesSum([q \in DOMAIN analysis.ret.weights |-> analysis.ret.weights[q].num])

\* C33: in average_entropy(prefix) and in stride_entropy(prefix) every context
\* is weighted by its count over the number of samples counted beyond the
\* prefix: whenever there is a sample, the denominator of every weight is the
\* sum of the counts, so the weights sum to exactly 1.
C33_WeightsSumToOne ==
    analysis.op \in {"average_entropy", "stride_entropy"}
        => \A q \in DOMAIN analysis.ret.weights :
              /\ analysis.ret.weights[q].num >= 1
              /\ analysis.ret.weights[q].den = WeightsSum

(***************************************************************************)
(* C34.  The counters of Lfu.                                              *)
(***************************************************************************)
\* The number of calls of access with the item of that id so far.
AccessesTo(id) == Cardinality({k \in 1..Len(history) : history[k].item.id = id})

\* C34: in Lfu the counter of every id is the number of accesses to that id
\* since the cache was made: one more per access, hit or miss, and neither
\* reset nor removed when the item is evicted.
C34_LfuCountsAllAccesses ==
    replacement_policy.kind = "Lfu"
        => /\ DOMAIN replacement_policy.counts = {history[k].item.id : k \in 1..Len(history)}
           /\ \A id \in DOMAIN replacement_policy.counts :
                 replacement_policy.counts[id] = AccessesTo(id)

\* C34 witness: an item was accessed, evicted and accessed again (a miss), and
\* its counter is 2; another id was hit and another is evicted and counted.
C34_Witness ==
    /\ replacement_policy.kind = "Lfu"
    /\ status = "ok"
    /\ \E j, k \in 1..Len(history) :
          /\ j < k
          /\ history[j].item.id = history[k].item.id
          /\ ~Contains(history[k].set, history[k].item)
          /\ replacement_policy.counts[history[k].item.id] = 2
    /\ \E k \in 1..Len(history) : Contains(history[k].set, history[k].item)
    /\ \E id \in DOMAIN replacement_policy.counts : id \notin {i.id : i \in set}

(***************************************************************************)
(* C35.  The credits of the residents of Landlord.                         *)
(***************************************************************************)
\* The credit of a resident, in units of 1/CreditScale.
CreditOf(i) == replacement_policy.credit[i.id]

\* C35: in Landlord with credit_increase in (0, 1] and costs that are not
\* negative, after every access the credit of every resident lies between 0
\* and its cost: the decay of an eviction never takes it below zero and a hit
\* never raises it above the cost.
C35_LandlordCreditInRange ==
    (replacement_policy.kind = "Landlord" /\ status = "ok")
        => \A i \in set :
              /\ i.id \in DOMAIN replacement_policy.credit
              /\ 0 <= CreditOf(i)
              /\ CreditOf(i) <= i.cost * CreditScale

\* C35 witness: after an access that evicted, a resident that was in the cache
\* before it is left with a credit strictly between 0 and its cost, and an
\* earlier access was a hit under a credit_increase of 1/2.
C35_Witness ==
    /\ replacement_policy.kind = "Landlord"
    /\ replacement_policy.credit_increase = [num |-> 1, den |-> 2]
    /\ replacement_policy.exact
    /\ status = "ok"
    /\ Len(history) >= 2
    /\ ~(history[Len(history)].set \subseteq set)
    /\ \E i \in set \cap history[Len(history)].set :
          0 < CreditOf(i) /\ CreditOf(i) < i.cost * CreditScale
    /\ \E k \in 1..Len(history) : Contains(history[k].set, history[k].item)

(***************************************************************************)
(* C36.  The occupancy of the single-eviction policies.                    *)
(***************************************************************************)
\* The set after the k-th call of access.
SetAfter(k) == IF k = Len(history) THEN set ELSE history[k + 1].set

\* The ids accessed up to the k-th call.
DistinctUpTo(k) == {history[j].item.id : j \in 1..k}

\* The k-th call had to evict: a miss on a full cache.
EvictingAccess(k) ==
    /\ ~Contains(history[k].set, history[k].item)
    /\ Cardinality(history[k].set) = capacity

\* C36: for Lru, Fifo and Mru with unit-size items and capacity >= 1, after
\* every access the number of residents is min(capacity, number of distinct
\* items accessed so far); a full cache stays full, and every evicting access
\* removes exactly one item (and no other access removes any).
C36_OccupancyIsMin ==
    (replacement_policy.kind \in {"Lru", "Fifo", "Mru"} /\ item_model = "u32")
        => /\ status = "ok"
           /\ \A k \in 1..Len(history) :
                 LET distinct == Cardinality(DistinctUpTo(k))
                     removed == history[k].set \ SetAfter(k)
                 IN /\ Cardinality(SetAfter(k))
                          = (IF distinct < capacity THEN distinct ELSE capacity)
                    /\ Cardinality(history[k].set) = capacity
                          => Cardinality(SetAfter(k)) = capacity
                    /\ Cardinality(removed) = (IF EvictingAccess(k) THEN 1 ELSE 0)

\* C36 witness: a cache of capacity 2 or more has filled, an access evicted,
\* and a later access hit in the full cache.
C36_Witness ==
    /\ replacement_policy.kind \in {"Lru", "Fifo", "Mru"}
    /\ item_model = "u32"
    /\ status = "ok"
    /\ capacity >= 2
    /\ \E j, k \in 1..Len(history) :
          /\ j < k
          /\ EvictingAccess(j)
          /\ Contains(history[k].set, history[k].item)
          /\ Cardinality(history[k].set) = capacity

(***************************************************************************)
(* C37.  num_items and num_strides.                                        *)
(***************************************************************************)
\* The ids of the items of the trace, in order.
AnalysedIds == [k \in 1..Len(trace.inner) |-> trace.inner[k].id]

\* The distinct contiguous subsequences of v that are exactly length long.
Subsequences(v, length) ==
    {w \in {SubSeq(v, i, j) : i \in 1..(Len(v) + 1), j \in 0..Len(v)} : Len(w) = length}

\* C37: num_items(length) returns the number of distinct contiguous
\* subsequences of items of exactly that length that occur anywhere in the
\* trace, and num_strides(length) the same for the strides, for every length
\* from 0 up to the length of the trace.
C37_NumDistinctSubsequences ==
    /\ (analysis.op = "num_items" /\ analysis.arg <= Len(trace.inner))
          => analysis.ret = Value(Cardinality(Subsequences(AnalysedIds, analysis.arg)))
    /\ (analysis.op = "num_strides" /\ analysis.arg <= Len(trace.inner))
          => analysis.ret = Value(Cardinality(Subsequences(trace.strides, analysis.arg)))

(***************************************************************************)
(* C38.  NoCondition and LastNItems.                                       *)
(***************************************************************************)
\* The entries of the trace immediately before index are the items, in order.
EntriesBefore(index, items) ==
    \A k \in 1..Len(items) : trace.inner[index - Len(items) + k].id = items[k].id

\* C38: at every index of the trace (and at its end), LastNItems(items).check
\* returns true exactly when index >= len(items) and the len(items) entries
\* immediately before index are the items in order; for index < len(items) it
\* returns false and does not fail; NoCondition.check returns true.
C38_ConditionCheck ==
    (analysis.op = "check" /\ analysis.arg.index <= Len(trace.inner))
        => LET c == analysis.arg.condition
               index == analysis.arg.index
           IN /\ analysis.ret.ok
              /\ c.kind = "NoCondition" => analysis.ret.value = TRUE
              /\ c.kind = "LastNItems"
                    => analysis.ret.value
                          = (index >= Len(c.items) /\ EntriesBefore(index, c.items))

\* C38 witness: LastNItems of two items was checked right after those two
\* items, where the trace goes on, and returned true.
C38_Witness ==
    /\ analysis.op = "check"
    /\ analysis.arg.condition.kind = "LastNItems"
    /\ Len(analysis.arg.condition.items) = 2
    /\ analysis.arg.index = 2
    /\ Len(trace.inner) = 3
    /\ analysis.ret = Value(TRUE)

(***************************************************************************)
(* C39.  linear_function_continuation.                                     *)
(***************************************************************************)
\* The list so far: one entry per run length tried, 1, 2, 3, ..., every entry
\* before the last positive, and no more entries than strides plus one; the
\* call has not panicked, and once it has returned the last entry is 0.
ContinuationSafe ==
    LET probs == continuation.probs
    IN /\ continuation.pc # "panicked"
       /\ continuation.pc \in {"loop", "done"}
             => /\ Len(probs) = continuation.prefix - 1
                /\ Len(probs) <= Len(trace.strides) + 1
                /\ \A k \in 1..(Len(probs) - 1) : probs[k] > 0
       /\ continuation.pc = "loop" => \A k \in 1..Len(probs) : probs[k] > 0
       /\ continuation.pc = "done"
             => /\ probs # <<>>
                /\ probs[Len(probs)] = 0
                /\ continuation.max_prefix = Len(probs)

\* C39: linear_function_continuation terminates on every finite trace, the
\* empty one included, without an access out of range: it tries the run
\* lengths 1, 2, 3, ... and stops at the first with no continuation, so the
\* returned list ends with 0, its earlier entries are positive and it is at
\* most one longer than the strides.
C39_ContinuationTerminates == []ContinuationSafe /\ <>(continuation.pc = "done")

\* C39 witness: on a trace of two equal strides the call returned after two
\* passes, with one continuation of a run of length 1 and none of length 2.
C39_Witness ==
    /\ continuation.pc = "done"
    /\ Len(trace.strides) = 2
    /\ continuation.probs = <<1, 0>>

====
